---- MODULE Spec2Model ----
(***************************************************************************)
(* SportSee data pipeline: Fetch Gateway (DataService), Normalizer         *)
(* (DataNormalizer), Chart Transformers and the request-state hooks.       *)
(*                                                                         *)
(* JavaScript values that may be undefined/null are modelled as optional   *)
(* values: None (<<>>) for undefined/null, Some(v) (<<v>>) otherwise.      *)
(***************************************************************************)
EXTENDS Integers, Sequences, FiniteSets, TLC

VARIABLES
    input,          \* pure pipeline: the raw payload handed to the normalizer
    norm,           \* pure pipeline: None until normalized, then Some(result)
    chart,          \* pure pipeline: None until transformed, then Some(result)
    pc,             \* pure pipeline: "init" | "normalized" | "charted"
    tzWest,         \* the runtime's local timezone is west of UTC
    kind,           \* which request hook the mounted view uses
    USE_MOCK_DATA,  \* DataService.USE_MOCK_DATA of the gateway the hook uses
    view,           \* the view owning the hook: "none" | "mounted" | "unmounted"
    userId,         \* the hook's current userId argument
    state,          \* the hook's state {data, loading, error}
    cycles,         \* one record per effect run that started a fetch cycle
    dataCycle,      \* history: the cycle whose settle last wrote state.data (0: none)
    errorCycle,     \* history: the cycle whose settle last wrote state.error (0: none)
    fetchLog,       \* history: the gateway fetches issued, in order
    last            \* history: what the latest settle did

pureVars == <<input, norm, chart, pc, tzWest>>
hookVars == <<kind, USE_MOCK_DATA, view, userId, state, cycles,
              dataCycle, errorCycle, fetchLog, last>>
vars == <<input, norm, chart, pc, tzWest, kind, USE_MOCK_DATA, view, userId,
          state, cycles, dataCycle, errorCycle, fetchLog, last>>

(***************************************************************************)
(* Bounds of the model                                                     *)
(***************************************************************************)
MaxLen == 2         \* session lengths range over 0..MaxLen
MaxShort == 2       \* longest "short" (free-form) input sequence

(***************************************************************************)
(* JavaScript helpers                                                      *)
(***************************************************************************)
None == <<>>
Some(v) == <<v>>
IsSome(o) == o /= <<>>
Get(o) == o[1]

\* a ?? d
Coalesce(o, d) == IF IsSome(o) THEN Get(o) ELSE d

\* a || d on numbers: undefined and 0 are falsy
OrElse(o, d) == IF IsSome(o) /\ Get(o) /= 0 THEN Get(o) ELSE d

\* Math.max(a, b)
MathMax(a, b) == IF a >= b THEN a ELSE b

\* Math.min(a, b)
MathMin(a, b) == IF a <= b THEN a ELSE b

(***************************************************************************)
(* DataNormalizer.normalizeSessions                                        *)
(***************************************************************************)
DAY_NAMES == <<"L", "M", "M", "J", "V", "S", "D">>

DAY_NAMES_FULL ==
    <<"Lundi", "Mardi", "Mercredi", "Jeudi", "Vendredi", "Samedi", "Dimanche">>

\* a lookup that wraps the index into the table instead of testing it
DayLookup_Wrapping(table, day, placeholder) ==
    IF IsSome(day) THEN table[((Get(day) - 1) % Len(table)) + 1] ELSE placeholder

\* table[session?.day - 1] ?? placeholder : an index outside the array (or a
\* NaN index, when day is undefined) reads undefined
DayLookup(table, day, placeholder) ==
    IF IsSome(day) /\ Get(day) - 1 >= 0 /\ Get(day) - 1 < Len(table)
    THEN table[(Get(day) - 1) + 1]
    ELSE placeholder

DisplayLength_NoClamp(session) == Coalesce(session.sessionLength, 1)

DisplayLength(session) == MathMax(Coalesce(session.sessionLength, 1), 1)

RawLength(session) == Coalesce(session.sessionLength, 0)

ShortName_OffByOne(session) == DayLookup(DAY_NAMES, Some(Coalesce(session.day, 1) + 1), "?")

ShortName(session) == DayLookup(DAY_NAMES, session.day, "?")

normalizeSessionEntry(session) ==
    [day              |-> Coalesce(session.day, 1),
     dayName          |-> ShortName(session),
     dayNameFull      |-> DayLookup(DAY_NAMES_FULL, session.day, "Inconnu"),
     sessionLength    |-> DisplayLength(session),
     sessionLengthRaw |-> RawLength(session)]

\* rawData: None (absent) or Some([userId, sessions]) with sessions None when
\* the field is missing or not an array
normalizeSessions(rawData) ==
    IF ~IsSome(rawData) THEN None
    ELSE IF ~IsSome(Get(rawData).sessions)
         THEN Some([userId |-> Coalesce(Get(rawData).userId, 0), sessions |-> <<>>])
         ELSE Some([userId   |-> Coalesce(Get(rawData).userId, 0),
                    sessions |-> [i \in 1..Len(Get(Get(rawData).sessions)) |->
                                    normalizeSessionEntry(Get(Get(rawData).sessions)[i])]])

(***************************************************************************)
(* SessionsTransformer.addGhostPoints and the legacy useSessionsChart body *)
(***************************************************************************)
\* A session as the transformer reads it: every field may be undefined.
SessionObject(e) ==
    [day              |-> Some(e.day),
     sessionLength    |-> Some(e.sessionLength),
     dayName          |-> Some(e.dayName),
     dayNameFull      |-> Some(e.dayNameFull),
     sessionLengthRaw |-> Some(e.sessionLengthRaw)]

\* A raw (not normalized) session carries only day and sessionLength.
RawSessionObject(s) ==
    [day              |-> s.day,
     sessionLength    |-> s.sessionLength,
     dayName          |-> None,
     dayNameFull      |-> None,
     sessionLengthRaw |-> None]

\* The normalizer's result as the transformer's argument.
SessionsArgument(n) ==
    IF ~IsSome(n) THEN None
    ELSE Some([sessions |-> Some([i \in 1..Len(Get(n).sessions) |-> SessionObject(Get(n).sessions[i])])])

\* The raw payload as the transformer's argument (no normalizer in between).
RawSessionsArgument(rawData) ==
    IF ~IsSome(rawData) THEN None
    ELSE Some([sessions |-> IF IsSome(Get(rawData).sessions)
                            THEN Some([i \in 1..Len(Get(Get(rawData).sessions)) |->
                                       RawSessionObject(Get(Get(rawData).sessions)[i])])
                            ELSE None])

RealSession(session) ==
    [day              |-> session.day,
     dayIndex         |-> session.day,
     sessionLength    |-> Some(OrElse(session.sessionLength, 0)),
     isReal           |-> TRUE,
     isGhost          |-> None,
     dayName          |-> session.dayName,
     dayNameFull      |-> session.dayNameFull,
     sessionLengthRaw |-> session.sessionLengthRaw]

Ghost(d, from) ==
    [day              |-> Some(d),
     dayIndex         |-> Some(d),
     sessionLength    |-> from.sessionLength,
     isReal           |-> FALSE,
     isGhost          |-> Some(TRUE),
     dayName          |-> None,
     dayNameFull      |-> None,
     sessionLengthRaw |-> None]

GhostEnd_FromFirst(realSessions) == Ghost(8, realSessions[1])

GhostEnd(realSessions) == Ghost(8, realSessions[Len(realSessions)])

addGhostPoints(rawData) ==
    IF ~IsSome(rawData) \/ ~IsSome(Get(rawData).sessions)
       \/ Len(Get(Get(rawData).sessions)) = 0
    THEN [sessions |-> <<>>]
    ELSE LET realSessions == [i \in 1..Len(Get(Get(rawData).sessions)) |->
                                 RealSession(Get(Get(rawData).sessions)[i])]
             ghostStart   == Ghost(0, realSessions[1])
             ghostEnd     == GhostEnd(realSessions)
         IN  [sessions |-> <<ghostStart>> \o realSessions \o <<ghostEnd>>]

LegacyRealSession(session) ==
    [day              |-> session.day,
     dayIndex         |-> session.day,
     sessionLength    |-> session.sessionLength,
     isReal           |-> TRUE,
     isGhost          |-> None,
     dayName          |-> None,
     dayNameFull      |-> None,
     sessionLengthRaw |-> None]

\* The body of the legacy useSessionsChart between the await and setState:
\* outcome "skip" when the guard rawData?.sessions is falsy (no state update),
\* "throw" when realSessions[0] is undefined (empty array), else "data".
legacyGhostPoints(rawData) ==
    IF ~IsSome(rawData) \/ ~IsSome(Get(rawData).sessions)
    THEN [outcome |-> "skip", sessions |-> <<>>]
    ELSE IF Len(Get(Get(rawData).sessions)) = 0
    THEN [outcome |-> "throw", sessions |-> <<>>]
    ELSE LET realSessions == [i \in 1..Len(Get(Get(rawData).sessions)) |->
                                 LegacyRealSession(Get(Get(rawData).sessions)[i])]
             ghostStart   == Ghost(0, realSessions[1])
             ghostEnd     == Ghost(8, realSessions[Len(realSessions)])
         IN  [outcome |-> "data",
              sessions |-> <<ghostStart>> \o realSessions \o <<ghostEnd>>]

(***************************************************************************)
(* Hook variables while only the pure pipeline runs                        *)
(***************************************************************************)
\* no settle has happened yet
NoSettle ==
    [cycle |-> 0, stale |-> FALSE, wrote |-> FALSE, normalized |-> FALSE,
     transformed |-> FALSE, consulted |-> {}, failed |-> FALSE]

HooksIdle ==
    /\ kind = "none"
    /\ USE_MOCK_DATA = TRUE
    /\ view = "none"
    /\ userId = 0
    /\ state = [data |-> None, loading |-> TRUE, error |-> None]
    /\ cycles = <<>>
    /\ dataCycle = 0
    /\ errorCycle = 0
    /\ fetchLog = <<>>
    /\ last = NoSettle

(***************************************************************************)
(* SpecSessions: raw average-sessions payload -> normalizeSessions ->      *)
(* addGhostPoints; the transformer is also applied to the raw payload      *)
(* (direct call, and the legacy useSessionsChart hook).                    *)
(***************************************************************************)
LenOpt == {None} \cup {Some(l) : l \in 0..MaxLen}

LenOptNeg == LenOpt \cup {Some(0 - 1)}

EdgeDays == {None, Some(0 - 1), Some(0), Some(1), Some(7), Some(8)}

\* sessionLength per weekday of mockSessionsData (user 12)
FixtureLen == <<30, 23, 45, 50, 0, 0, 60>>

WeekInputs ==
    { [i \in 1..7 |-> [day |-> Some(i), sessionLength |-> f[i]]] :
        f \in [1..7 -> LenOpt] }

PermInputs ==
    { [i \in 1..7 |-> [day |-> Some(p[i]), sessionLength |-> Some(FixtureLen[p[i]])]] :
        p \in Permutations(1..7) }

ShortInputs ==
    UNION { [1..n -> [day : EdgeDays, sessionLength : LenOptNeg]] : n \in 0..MaxShort }

SessionsInputs ==
    {None}
    \cup { Some([userId |-> u, sessions |-> None]) : u \in {None, Some(12)} }
    \cup { Some([userId |-> Some(12), sessions |-> Some(ss)]) :
             ss \in WeekInputs \cup PermInputs \cup ShortInputs }

InitSessions ==
    /\ input \in SessionsInputs
    /\ norm = None
    /\ chart = None
    /\ pc = "init"
    /\ tzWest = FALSE
    /\ HooksIdle

NormalizeSessionsStep ==
    /\ pc = "init"
    /\ norm' = Some(normalizeSessions(input))
    /\ pc' = "normalized"
    /\ UNCHANGED <<input, chart, tzWest>>
    /\ UNCHANGED hookVars

AddGhostPointsStep ==
    /\ pc = "normalized"
    /\ chart' = Some([by      |-> "addGhostPoints",
                      outcome |-> "data",
                      sessions |-> addGhostPoints(SessionsArgument(Get(norm))).sessions])
    /\ pc' = "charted"
    /\ UNCHANGED <<input, norm, tzWest>>
    /\ UNCHANGED hookVars

AddGhostPointsRawStep ==
    /\ pc = "init"
    /\ chart' = Some([by      |-> "addGhostPoints",
                      outcome |-> "data",
                      sessions |-> addGhostPoints(RawSessionsArgument(input)).sessions])
    /\ pc' = "charted"
    /\ UNCHANGED <<input, norm, tzWest>>
    /\ UNCHANGED hookVars

LegacyGhostPointsStep ==
    /\ pc = "init"
    /\ LET r == legacyGhostPoints(RawSessionsArgument(input))
       IN  chart' = Some([by |-> "useSessionsChart", outcome |-> r.outcome,
                          sessions |-> r.sessions])
    /\ pc' = "charted"
    /\ UNCHANGED <<input, norm, tzWest>>
    /\ UNCHANGED hookVars

NextSessions ==
    \/ NormalizeSessionsStep
    \/ AddGhostPointsStep
    \/ AddGhostPointsRawStep
    \/ LegacyGhostPointsStep

SpecSessions == InitSessions /\ [][NextSessions]_vars

\* the raw sessions array of the input (empty when absent)
InputSessions ==
    IF IsSome(input) /\ IsSome(Get(input).sessions) THEN Get(Get(input).sessions) ELSE <<>>

\* C4: for a 7-entry sessions input the ghost-point transform returns 9 entries;
\* entry 0 has day 0 and the length of entry 1, entry 8 has day 8 and the length
\* of entry 7, entries 0 and 8 are flagged non-real and entries 1..7 real.
C4_GhostPoints ==
    (pc = "charted" /\ Len(InputSessions) = 7) =>
        LET out == Get(chart).sessions
        IN  /\ Get(chart).outcome = "data"
            /\ Len(out) = 9
            /\ out[1].day = Some(0)
            /\ out[1].sessionLength = out[2].sessionLength
            /\ out[9].day = Some(8)
            /\ out[9].sessionLength = out[8].sessionLength
            /\ out[1].isReal = FALSE
            /\ out[9].isReal = FALSE
            /\ \A i \in 2..8 : out[i].isReal = TRUE

\* a 7-entry input whose first and last lengths differ has been transformed
C4_Witness ==
    /\ pc = "charted"
    /\ Len(InputSessions) = 7
    /\ Get(chart).by = "addGhostPoints"
    /\ Len(Get(chart).sessions) = 9
    /\ Get(chart).sessions[1].sessionLength /= Get(chart).sessions[9].sessionLength

\* C7: every input entry with session length L (0 included) is normalized to
\* display length max(L, 1) and raw length L.
C7_LengthClamp ==
    (pc = "normalized" /\ IsSome(Get(norm))) =>
        /\ Len(Get(Get(norm)).sessions) = Len(InputSessions)
        /\ \A i \in 1..Len(InputSessions) :
             IsSome(InputSessions[i].sessionLength) =>
                LET L == Get(InputSessions[i].sessionLength)
                    e == Get(Get(norm)).sessions[i]
                IN  /\ e.sessionLength = (IF L >= 1 THEN L ELSE 1)
                    /\ e.sessionLengthRaw = L

\* an entry of length 0 has been normalized to display length 1, raw length 0
C7_Witness ==
    /\ pc = "normalized"
    /\ IsSome(Get(norm))
    /\ \E i \in 1..Len(InputSessions) :
         /\ InputSessions[i].sessionLength = Some(0)
         /\ Get(Get(norm)).sessions[i].sessionLength = 1
         /\ Get(Get(norm)).sessions[i].sessionLengthRaw = 0

\* the input's entries carry the weekdays 1..7 each exactly once
WeekdaysOnce(ss) ==
    /\ Len(ss) = 7
    /\ \A d \in 1..7 : Cardinality({i \in 1..7 : ss[i].day = Some(d)}) = 1

\* C8: an input carrying the weekdays 1..7 each exactly once is normalized to
\* exactly 7 entries in input order, each weekday once, each entry's short and
\* full names being the table elements at index weekday-1.
C8_SevenWeekdays ==
    (pc = "normalized" /\ WeekdaysOnce(InputSessions)) =>
        LET out == Get(Get(norm)).sessions
        IN  /\ Len(out) = 7
            /\ \A i \in 1..7 : Some(out[i].day) = InputSessions[i].day
            /\ \A d \in 1..7 : Cardinality({i \in 1..7 : out[i].day = d}) = 1
            /\ \A i \in 1..7 :
                 /\ out[i].dayName = DAY_NAMES[out[i].day]
                 /\ out[i].dayNameFull = DAY_NAMES_FULL[out[i].day]

\* a week given out of calendar order has been normalized
C8_Witness ==
    /\ pc = "normalized"
    /\ WeekdaysOnce(InputSessions)
    /\ InputSessions[1].day = Some(7)
    /\ Get(Get(norm)).sessions[1].dayNameFull = "Dimanche"

(***************************************************************************)
(* DataNormalizer.normalizePerformance                                     *)
(***************************************************************************)
PERFORMANCE_KIND_MAP ==
    <<"cardio", "energy", "endurance", "strength", "speed", "intensity">>

\* PERFORMANCE_KIND_MAP[item?.kind] ?? 'unknown'
KindName_NoSentinel(item) ==
    IF IsSome(item.kind) /\ Get(item.kind) \in 1..Len(PERFORMANCE_KIND_MAP)
    THEN PERFORMANCE_KIND_MAP[Get(item.kind)]
    ELSE PERFORMANCE_KIND_MAP[1]

KindName(item) ==
    IF IsSome(item.kind) /\ Get(item.kind) \in 1..Len(PERFORMANCE_KIND_MAP)
    THEN PERFORMANCE_KIND_MAP[Get(item.kind)]
    ELSE "unknown"

\* a normalizer whose default for a missing value is 1
normalizePerformanceEntry_ValueOne(item) ==
    [value    |-> Coalesce(item.value, 1),
     kind     |-> Coalesce(item.kind, 0),
     kindName |-> KindName(item)]

normalizePerformanceEntry(item) ==
    [value    |-> Coalesce(item.value, 0),
     kind     |-> Coalesce(item.kind, 0),
     kindName |-> KindName(item)]

\* rawData: None or Some([userId, kind, data]); kind is the wire id -> name
\* table (None when missing), data is None when missing or not an array
normalizePerformance(rawData) ==
    IF ~IsSome(rawData) THEN None
    ELSE IF ~IsSome(Get(rawData).data)
         THEN Some([userId |-> Coalesce(Get(rawData).userId, 0),
                    kind   |-> Get(rawData).kind,
                    data   |-> <<>>])
         ELSE Some([userId |-> Coalesce(Get(rawData).userId, 0),
                    kind   |-> Get(rawData).kind,
                    data   |-> [i \in 1..Len(Get(Get(rawData).data)) |->
                                  normalizePerformanceEntry(Get(Get(rawData).data)[i])]])

(***************************************************************************)
(* PerformanceTransformer.formatForRadar                                   *)
(***************************************************************************)
\* TRANSLATIONS[slug]: None for a slug that is not a key
TRANSLATIONS(slug) ==
    CASE slug = Some("cardio")    -> Some("Cardio")
      [] slug = Some("energy")    -> Some("Énergie")
      [] slug = Some("endurance") -> Some("Endurance")
      [] slug = Some("strength")  -> Some("Force")
      [] slug = Some("speed")     -> Some("Vitesse")
      [] slug = Some("intensity") -> Some("Intensité")
      [] OTHER                    -> None

RADAR_ORDER_Swapped ==
    <<"Vitesse", "Intensité", "Force", "Endurance", "Énergie", "Cardio">>

RADAR_ORDER ==
    <<"Intensité", "Vitesse", "Force", "Endurance", "Énergie", "Cardio">>

FULL_MARK == 250

\* rawData.kind[d.kind]: the wire table's name for an id (None when missing)
WireKindName(table, id) ==
    IF IsSome(table) /\ IsSome(id) /\ Get(id) \in DOMAIN Get(table)
    THEN Some(Get(table)[Get(id)])
    ELSE None

\* a predicate that looks the category up through the wire table only, as
\* the legacy usePerformanceChart does
RadarMatches_ByWireId(rawData, d, frenchName) ==
    IsSome(rawData.kind)
    /\ TRANSLATIONS(WireKindName(rawData.kind, d.kind)) = Some(frenchName)

\* the predicate handed to rawData.data.find
RadarMatches(rawData, d, frenchName) ==
    IF IsSome(d.kindName) /\ Get(d.kindName) /= ""
    THEN TRANSLATIONS(d.kindName) = Some(frenchName)
    ELSE IsSome(rawData.kind)
         /\ TRANSLATIONS(WireKindName(rawData.kind, d.kind)) = Some(frenchName)

\* Array.prototype.find: the first matching item, None when there is none
RadarFind(rawData, frenchName) ==
    LET hits == {i \in 1..Len(Get(rawData.data)) :
                   RadarMatches(rawData, Get(rawData.data)[i], frenchName)}
    IN  IF hits = {} THEN None
        ELSE Some(Get(rawData.data)[CHOOSE i \in hits : \A j \in hits : i <= j])

RadarSlot(rawData, frenchName) ==
    LET item == RadarFind(rawData, frenchName)
    IN  [subject  |-> frenchName,
         value    |-> IF IsSome(item) THEN Get(item).value ELSE Some(0),
         fullMark |-> FULL_MARK]

\* rawData: None or Some([kind, data]) with data None when missing / not an array;
\* items are [value, kind, kindName], each field optional
formatForRadar(rawData) ==
    IF ~IsSome(rawData) \/ ~IsSome(Get(rawData).data) THEN <<>>
    ELSE [k \in 1..Len(RADAR_ORDER) |-> RadarSlot(Get(rawData), RADAR_ORDER[k])]

\* A normalized entry as the transformer reads it.
PerformanceObject(e) ==
    [value |-> Some(e.value), kind |-> Some(e.kind), kindName |-> Some(e.kindName)]

\* A raw entry carries no kindName.
RawPerformanceObject(item) ==
    [value |-> item.value, kind |-> item.kind, kindName |-> None]

PerformanceArgument(n) ==
    IF ~IsSome(n) THEN None
    ELSE Some([kind |-> Get(n).kind,
               data |-> Some([i \in 1..Len(Get(n).data) |-> PerformanceObject(Get(n).data[i])])])

RawPerformanceArgument(rawData) ==
    IF ~IsSome(rawData) THEN None
    ELSE Some([kind |-> Get(rawData).kind,
               data |-> IF IsSome(Get(rawData).data)
                        THEN Some([i \in 1..Len(Get(Get(rawData).data)) |->
                                     RawPerformanceObject(Get(Get(rawData).data)[i])])
                        ELSE None])

(***************************************************************************)
(* SpecRadar: raw performance payload -> normalizePerformance ->           *)
(* formatForRadar; the transformer is also applied to the raw payload.     *)
(***************************************************************************)
MaxValue == 2       \* performance values range over 0..MaxValue

\* the wire payload's own id -> name table
WireKind == PERFORMANCE_KIND_MAP

ValueOpt == {None} \cup {Some(v) : v \in 0..MaxValue}

\* ascending list of the elements of a set of ids
RECURSIVE SortedIds(_)
SortedIds(S) ==
    IF S = {} THEN <<>>
    ELSE LET m == CHOOSE x \in S : \A y \in S : x <= y
         IN  <<m>> \o SortedIds(S \ {m})

\* one entry per category of a subset of the six, in ascending or descending id order
SubsetInputs ==
    UNION { { [i \in 1..Len(SortedIds(S)) |->
                 [kind  |-> Some(SortedIds(S)[IF up THEN i ELSE Len(SortedIds(S)) + 1 - i]),
                  value |-> Some(f[SortedIds(S)[IF up THEN i ELSE Len(SortedIds(S)) + 1 - i]])]] :
                f \in [S -> 0..MaxValue], up \in BOOLEAN } :
            S \in SUBSET (1..6) }

\* free-form entries: missing fields, unknown ids, repeated categories
ShortRadarInputs ==
    UNION { [1..n -> [kind : {None, Some(0), Some(1), Some(6), Some(7)}, value : ValueOpt]] :
              n \in 0..MaxShort }

RadarInputs ==
    {None}
    \cup { Some([userId |-> Some(12), kind |-> k, data |-> None]) : k \in {None, Some(WireKind)} }
    \cup { Some([userId |-> Some(12), kind |-> Some(WireKind), data |-> Some(dd)]) :
             dd \in SubsetInputs \cup ShortRadarInputs }

InitRadar ==
    /\ input \in RadarInputs
    /\ norm = None
    /\ chart = None
    /\ pc = "init"
    /\ tzWest = FALSE
    /\ HooksIdle

NormalizePerformanceStep ==
    /\ pc = "init"
    /\ norm' = Some(normalizePerformance(input))
    /\ pc' = "normalized"
    /\ UNCHANGED <<input, chart, tzWest>>
    /\ UNCHANGED hookVars

FormatForRadarStep ==
    /\ pc = "normalized"
    /\ chart' = Some([by |-> "formatForRadar",
                      radar |-> formatForRadar(PerformanceArgument(Get(norm)))])
    /\ pc' = "charted"
    /\ UNCHANGED <<input, norm, tzWest>>
    /\ UNCHANGED hookVars

FormatForRadarRawStep ==
    /\ pc = "init"
    /\ chart' = Some([by |-> "formatForRadar",
                      radar |-> formatForRadar(RawPerformanceArgument(input))])
    /\ pc' = "charted"
    /\ UNCHANGED <<input, norm, tzWest>>
    /\ UNCHANGED hookVars

NextRadar ==
    \/ NormalizePerformanceStep
    \/ FormatForRadarStep
    \/ FormatForRadarRawStep

SpecRadar == InitRadar /\ [][NextRadar]_vars

\* the raw data array of the input
InputData ==
    IF IsSome(input) /\ IsSome(Get(input).data) THEN Get(Get(input).data) ELSE <<>>

\* kind id of each radar slot: Intensité, Vitesse, Force, Endurance, Énergie, Cardio
SlotKind == <<6, 5, 4, 3, 2, 1>>

SlotLabel == <<"Intensité", "Vitesse", "Force", "Endurance", "Énergie", "Cardio">>

\* the input entries of the category with kind id c, in input order
EntriesOf(c) == {i \in 1..Len(InputData) : InputData[i].kind = Some(c)}

RoundPercent_Truncating(milli) == (milli * 100) \div 1000

RoundPercent(milli) == (milli * 100 + 500) \div 1000

\* rawData.score || rawData.todayScore || 0
ScoreOf(rawData) == OrElse(rawData.score, OrElse(rawData.todayScore, 0))

\* rawData: None or Some([todayScore, score]), each field optional
calculatePercentage(rawData) ==
    IF ~IsSome(rawData) THEN [percentage |-> 0]
    ELSE LET score      == ScoreOf(Get(rawData))
             percentage == RoundPercent(score)
         IN  [percentage |-> MathMax(0, MathMin(100, percentage))]

(***************************************************************************)
(* SpecScore: profile records handed to calculatePercentage                *)
(***************************************************************************)
MaxScoreStep == 250     \* scores go up to 0.005 * MaxScoreStep
MinScoreStep == 30      \* and down to -0.005 * MinScoreStep

ScoreGrid == {5 * k : k \in (0 - MinScoreStep)..MaxScoreStep}

\* records with one score field, none, both equal (the normalizer's output),
\* and a few with two different values
ScoreInputs ==
    {None}
    \cup {Some([todayScore |-> None, score |-> None])}
    \cup {Some([todayScore |-> Some(v), score |-> None]) : v \in ScoreGrid}
    \cup {Some([todayScore |-> None, score |-> Some(v)]) : v \in ScoreGrid}
    \cup {Some([todayScore |-> Some(v), score |-> Some(v)]) : v \in ScoreGrid}
    \cup {Some([todayScore |-> Some(v), score |-> Some(w)]) :
            v \in {0, 300}, w \in {0, 500}}

InitScore ==
    /\ input \in ScoreInputs
    /\ norm = None
    /\ chart = None
    /\ pc = "init"
    /\ tzWest = FALSE
    /\ HooksIdle

CalculatePercentageStep ==
    /\ pc = "init"
    /\ chart' = Some([by |-> "calculatePercentage",
                      percentage |-> calculatePercentage(input).percentage])
    /\ pc' = "charted"
    /\ UNCHANGED <<input, norm, tzWest>>
    /\ UNCHANGED hookVars

NextScore == CalculatePercentageStep

SpecScore == InitScore /\ [][NextScore]_vars

\* the record names one score: at most one field, or both fields equal
OneScore(r) ==
    ~IsSome(r.todayScore) \/ ~IsSome(r.score) \/ r.todayScore = r.score

\* the score a record with one score carries, 0 when it carries none
UnifiedScore(r) ==
    IF IsSome(r.todayScore) THEN Get(r.todayScore)
    ELSE IF IsSome(r.score) THEN Get(r.score)
    ELSE 0

\* p is 100 * s rounded half up, s in thousandths: p - 0.5 <= 100 s < p + 0.5
IsRoundHalfUp(p, milli) ==
    /\ 1000 * p - 500 <= 100 * milli
    /\ 100 * milli < 1000 * p + 500

Clamped(p) == IF p < 0 THEN 0 ELSE IF p > 100 THEN 100 ELSE p

C6_Examples ==
    pc = "charted" =>
        /\ input = Some([todayScore |-> None, score |-> Some(1200)])
             => Get(chart).percentage = 100
        /\ input = Some([todayScore |-> Some(0 - 100), score |-> None])
             => Get(chart).percentage = 0
        /\ input = Some([todayScore |-> None, score |-> None])
             => Get(chart).percentage = 0
        /\ input = None => Get(chart).percentage = 0
        /\ input = Some([todayScore |-> Some(295), score |-> None])
             => Get(chart).percentage = 30

(***************************************************************************)
(* DataNormalizer.normalizeActivity                                        *)
(* A number that may be NaN is [nan, n]; n is 0 when nan is TRUE.          *)
(***************************************************************************)
Num(n) == [nan |-> FALSE, n |-> n]

NaN == [nan |-> TRUE, n |-> 0]

\* The date strings of the model and the UTC calendar day each denotes; any
\* other string is one Date cannot parse.
KnownDates == {"2020-07-01", "2020-07-02", "2020-08-01"}

UtcDay(dayString) ==
    CASE dayString = "2020-07-01" -> [month |-> 7, day |-> 1]
      [] dayString = "2020-07-02" -> [month |-> 7, day |-> 2]
      [] dayString = "2020-08-01" -> [month |-> 8, day |-> 1]

\* the last day of the month before month m (of 2020)
LastDayBefore(m) == IF m = 7 THEN 30 ELSE 31

\* new Date(dayString).getDate(): a date-only string is midnight UTC, getDate
\* reads the local calendar day, which west of UTC is still the day before;
\* an unparseable string gives an Invalid Date, whose getDate() is NaN
GetDate(dayString, west) ==
    IF dayString \notin KnownDates THEN NaN
    ELSE IF ~west THEN Num(UtcDay(dayString).day)
    ELSE IF UtcDay(dayString).day = 1 THEN Num(LastDayBefore(UtcDay(dayString).month))
    ELSE Num(UtcDay(dayString).day - 1)

\* `${dayFormatted}${dayFormatted === 1 ? 'er' : ''}`
DayLabel(dayFormatted) ==
    IF dayFormatted.nan THEN "NaN"
    ELSE ToString(dayFormatted.n) \o (IF dayFormatted.n = 1 THEN "er" ELSE "")

normalizeActivityEntry(session, west) ==
    LET dayString == Coalesce(session.day, "")
        parsed    == dayString /= ""
    IN  [day          |-> dayString,
         dayFormatted |-> IF parsed THEN GetDate(dayString, west) ELSE Num(0),
         dayName      |-> IF parsed THEN DayLabel(GetDate(dayString, west)) ELSE "?",
         kilogram     |-> Coalesce(session.kilogram, 0),
         calories     |-> Coalesce(session.calories, 0)]

\* rawData: None or Some([userId, sessions]) with sessions None when the field
\* is missing or not an array
normalizeActivity(rawData, west) ==
    IF ~IsSome(rawData) THEN None
    ELSE IF ~IsSome(Get(rawData).sessions)
         THEN Some([userId |-> Coalesce(Get(rawData).userId, 0), sessions |-> <<>>])
         ELSE Some([userId   |-> Coalesce(Get(rawData).userId, 0),
                    sessions |-> [i \in 1..Len(Get(Get(rawData).sessions)) |->
                                    normalizeActivityEntry(Get(Get(rawData).sessions)[i], west)]])

(***************************************************************************)
(* ActivityTransformer.format and the legacy useActivityChart body         *)
(***************************************************************************)
\* A normalized session as the transformer reads it.
ActivityObject(e) ==
    [day          |-> Some(e.day),
     kilogram     |-> Some(e.kilogram),
     calories     |-> Some(e.calories),
     dayFormatted |-> Some(e.dayFormatted)]

\* A raw session carries no dayFormatted.
RawActivityObject(session) ==
    [day          |-> session.day,
     kilogram     |-> session.kilogram,
     calories     |-> session.calories,
     dayFormatted |-> None]

ActivityArgument(n) ==
    IF ~IsSome(n) THEN None
    ELSE Some([sessions |-> Some([i \in 1..Len(Get(n).sessions) |->
                                    ActivityObject(Get(n).sessions[i])])])

RawActivityArgument(rawData) ==
    IF ~IsSome(rawData) THEN None
    ELSE Some([sessions |-> IF IsSome(Get(rawData).sessions)
                            THEN Some([i \in 1..Len(Get(Get(rawData).sessions)) |->
                                         RawActivityObject(Get(Get(rawData).sessions)[i])])
                            ELSE None])

DayIndex_FromDate(session, index) ==
    IF IsSome(session.dayFormatted) /\ ~Get(session.dayFormatted).nan
    THEN Get(session.dayFormatted).n
    ELSE index + 1

DayIndex(session, index) == index + 1

\* the map callback; index is the 0-based array index
FormatSession(session, index) ==
    [day          |-> DayIndex(session, index),
     kilogram     |-> Some(OrElse(session.kilogram, 0)),
     calories     |-> Some(OrElse(session.calories, 0)),
     displayDay   |-> ToString(DayIndex(session, index)),
     originalDay  |-> session.day,
     dayFormatted |-> session.dayFormatted]

format(rawData) ==
    IF ~IsSome(rawData) \/ ~IsSome(Get(rawData).sessions)
    THEN [sessions |-> <<>>]
    ELSE [sessions |-> [i \in 1..Len(Get(Get(rawData).sessions)) |->
                          FormatSession(Get(Get(rawData).sessions)[i], i - 1)]]

LegacyFormatSession(session, index) ==
    [day          |-> index + 1,
     kilogram     |-> session.kilogram,
     calories     |-> session.calories,
     displayDay   |-> ToString(index + 1),
     originalDay  |-> None,
     dayFormatted |-> None]

\* The body of the legacy useActivityChart between the await and setState:
\* outcome "skip" when the guard rawData?.sessions is falsy (no state update).
legacyFormat(rawData) ==
    IF ~IsSome(rawData) \/ ~IsSome(Get(rawData).sessions)
    THEN [outcome |-> "skip", sessions |-> <<>>]
    ELSE [outcome |-> "data",
          sessions |-> [i \in 1..Len(Get(Get(rawData).sessions)) |->
                          LegacyFormatSession(Get(Get(rawData).sessions)[i], i - 1)]]

(***************************************************************************)
(* SpecActivity: raw activity payload -> normalizeActivity -> format; the  *)
(* transformer is also applied to the raw payload (direct call, and the    *)
(* legacy useActivityChart hook).                                          *)
(***************************************************************************)
DayStrings ==
    {None, Some(""), Some("not-a-date")} \cup {Some(d) : d \in KnownDates}

RawActivitySessions ==
    [day : DayStrings, kilogram : {None, Some(0), Some(80)}, calories : {None, Some(240)}]

\* mockActivityData (user 12) restricted to the dates of the model
FixtureActivity ==
    <<[day |-> Some("2020-07-01"), kilogram |-> Some(80), calories |-> Some(240)],
      [day |-> Some("2020-07-02"), kilogram |-> Some(80), calories |-> Some(220)]>>

ActivityInputs ==
    {None}
    \cup { Some([userId |-> u, sessions |-> None]) : u \in {None, Some(12)} }
    \cup { Some([userId |-> Some(12), sessions |-> Some(ss)]) :
             ss \in {FixtureActivity}
                    \cup UNION { [1..n -> RawActivitySessions] : n \in 0..MaxShort } }

InitActivity ==
    /\ input \in ActivityInputs
    /\ norm = None
    /\ chart = None
    /\ pc = "init"
    /\ tzWest \in BOOLEAN
    /\ HooksIdle

NormalizeActivityStep ==
    /\ pc = "init"
    /\ norm' = Some(normalizeActivity(input, tzWest))
    /\ pc' = "normalized"
    /\ UNCHANGED <<input, chart, tzWest>>
    /\ UNCHANGED hookVars

FormatStep ==
    /\ pc = "normalized"
    /\ chart' = Some([by |-> "format", outcome |-> "data",
                      sessions |-> format(ActivityArgument(Get(norm))).sessions])
    /\ pc' = "charted"
    /\ UNCHANGED <<input, norm, tzWest>>
    /\ UNCHANGED hookVars

FormatRawStep ==
    /\ pc = "init"
    /\ chart' = Some([by |-> "format", outcome |-> "data",
                      sessions |-> format(RawActivityArgument(input)).sessions])
    /\ pc' = "charted"
    /\ UNCHANGED <<input, norm, tzWest>>
    /\ UNCHANGED hookVars

LegacyFormatStep ==
    /\ pc = "init"
    /\ LET r == legacyFormat(RawActivityArgument(input))
       IN  chart' = Some([by |-> "useActivityChart", outcome |-> r.outcome,
                          sessions |-> r.sessions])
    /\ pc' = "charted"
    /\ UNCHANGED <<input, norm, tzWest>>
    /\ UNCHANGED hookVars

NextActivity ==
    \/ NormalizeActivityStep
    \/ FormatStep
    \/ FormatRawStep
    \/ LegacyFormatStep

SpecActivity == InitActivity /\ [][NextActivity]_vars

\* the raw sessions array of the activity input (empty when absent)
InputActivity ==
    IF IsSome(input) /\ IsSome(Get(input).sessions) THEN Get(Get(input).sessions) ELSE <<>>

\* C9: for a session sequence of length n the activity transform returns n
\* sessions in input order, the i-th with day index i and display label the
\* decimal string of i whatever the dates, carrying the i-th input's kilogram
\* and calories.
C9_ActivityRelabel ==
    (pc = "charted" /\ Get(chart).outcome = "data") =>
        LET out == Get(chart).sessions
        IN  /\ Len(out) = Len(InputActivity)
            /\ \A i \in 1..Len(out) :
                 /\ out[i].day = i
                 /\ out[i].displayDay = ToString(i)
                 /\ IsSome(InputActivity[i].kilogram)
                      => out[i].kilogram = InputActivity[i].kilogram
                 /\ IsSome(InputActivity[i].calories)
                      => out[i].calories = InputActivity[i].calories

\* two sessions a month apart have been relabelled 1 and 2
C9_Witness ==
    /\ pc = "charted"
    /\ Get(chart).by = "format"
    /\ IsSome(norm)
    /\ Len(InputActivity) = 2
    /\ InputActivity[1].day = Some("2020-07-01")
    /\ InputActivity[2].day = Some("2020-08-01")
    /\ Get(chart).sessions[2].day = 2
    /\ Get(chart).sessions[2].displayDay = "2"
    /\ Get(chart).sessions[2].kilogram = Some(80)

\* the session's date is missing or is a string Date cannot parse
DateFailsToParse(session) ==
    ~IsSome(session.day) \/ Get(session.day) \notin KnownDates

\* C10: every input session whose date is missing or cannot be parsed is
\* normalized to day-of-month 0 and label "?", and the batch is still normalized
\* one output entry per input entry, in input order.
C10_BadDateDefaults ==
    (pc = "normalized" /\ IsSome(Get(norm))) =>
        LET out == Get(Get(norm)).sessions
        IN  /\ Len(out) = Len(InputActivity)
            /\ \A i \in 1..Len(out) :
                 /\ out[i].kilogram = Coalesce(InputActivity[i].kilogram, 0)
                 /\ out[i].calories = Coalesce(InputActivity[i].calories, 0)
                 /\ DateFailsToParse(InputActivity[i]) =>
                      /\ out[i].dayFormatted = Num(0)
                      /\ out[i].dayName = "?"

(***************************************************************************)
(* Fetch gateways: DataService (normalizing) and the legacy DataService    *)
(* behind sportSeeAPI (no normalization), on the activity resource         *)
(***************************************************************************)
DEFAULT_USER_ID == 18

\* DataService.getUserActivity: the endpoint string
Endpoint(u) == "/user/" \o ToString(u) \o "/activity"

mockActivityData ==
    [userId |-> Some(12), sessions |-> Some(FixtureActivity)]

mockActivityDataUser18 ==
    [userId   |-> Some(18),
     sessions |-> Some(<<[day |-> Some("2020-07-01"), kilogram |-> Some(70), calories |-> Some(300)],
                         [day |-> Some("2020-07-02"), kilogram |-> Some(69), calories |-> Some(350)]>>)]

\* mockDataMap[endpoint]: None when the table has no such key
mockDataMap(endpoint) ==
    IF endpoint = Endpoint(DEFAULT_USER_ID) THEN Some(mockActivityDataUser18)
    ELSE IF endpoint = "/user/12/activity" THEN Some(mockActivityData)
    ELSE None

\* A settled fetch: the promise fetchData returns, resolved or rejected.
\* normalized and consulted record what the gateway did on the way.
Resolved(payload, normalized, sources) ==
    [status |-> "resolved", payload |-> payload, message |-> "",
     normalized |-> normalized, consulted |-> sources]

Rejected(message, sources) ==
    [status |-> "rejected", payload |-> None, message |-> message,
     normalized |-> FALSE, consulted |-> sources]

\* on an activity endpoint: a falsy rawData is returned as it is
normalizeByEndpoint(rawData, west) ==
    IF ~IsSome(rawData)
    THEN [payload |-> None, normalized |-> FALSE]
    ELSE [payload |-> normalizeActivity(rawData, west), normalized |-> TRUE]

_getMockData(endpoint, west) ==
    IF ~IsSome(mockDataMap(endpoint))
    THEN Rejected("Données mockées non trouvées pour: " \o endpoint, {"mock"})
    ELSE LET n == normalizeByEndpoint(mockDataMap(endpoint), west)
         IN  Resolved(n.payload, n.normalized, {"mock"})

\* What the network gives back to fetch(url): no response at all (arrived
\* FALSE), or a response with a status and a body. json tells what
\* response.json() makes of the body: "invalid" (not JSON, or empty: the
\* promise rejects), "null" (the JSON value null) or "object" (any other JSON
\* value; data is its data field, None when it has none).
NetworkError ==
    [arrived |-> FALSE, status |-> 0, statusText |-> "", json |-> "invalid", data |-> None]

HttpResponse(status, statusText, data) ==
    [arrived |-> TRUE, status |-> status, statusText |-> statusText,
     json |-> "object", data |-> data]

\* a response whose body is not a JSON object
HttpBody(status, statusText, json) ==
    [arrived |-> TRUE, status |-> status, statusText |-> statusText,
     json |-> json, data |-> None]

\* response.ok
ResponseOk(response) == response.status >= 200 /\ response.status <= 299

\* something is thrown inside the try block of _getApiData: by fetch, by the
\* status test, by response.json() or by reading result.data
Throws(response) ==
    \/ ~response.arrived
    \/ ~ResponseOk(response)
    \/ response.json /= "object"

ApiError_NoStatus(response) ==
    IF ~response.arrived THEN "Failed to fetch" ELSE "Erreur HTTP"

\* the message of the error thrown inside the try block (the wording of the
\* engine's own errors is the one of V8)
ApiError(response) ==
    IF ~response.arrived THEN "Failed to fetch"
    ELSE IF ~ResponseOk(response)
    THEN "Erreur HTTP: " \o ToString(response.status) \o " - " \o response.statusText
    ELSE IF response.json = "invalid" THEN "Unexpected end of JSON input"
    ELSE "Cannot read properties of null (reading 'data')"

_getApiData_Fallback(endpoint, response, west) ==
    IF Throws(response)
    THEN LET m == _getMockData(endpoint, west)
         IN  [m EXCEPT !.consulted = {"live", "mock"}]
    ELSE LET n == normalizeByEndpoint(response.data, west)
         IN  Resolved(n.payload, n.normalized, {"live"})

_getApiData(endpoint, response, west) ==
    IF Throws(response)
    THEN Rejected("Échec de l'appel API: " \o ApiError(response), {"live"})
    ELSE LET n == normalizeByEndpoint(response.data, west)
         IN  Resolved(n.payload, n.normalized, {"live"})

\* the source fetchData selects for a value of the flag
SourceOf(flag) == IF flag THEN "mock" ELSE "live"

fetchData(flag, endpoint, response, west) ==
    IF flag THEN _getMockData(endpoint, west)
    ELSE _getApiData(endpoint, response, west)

Legacy_getMockData(endpoint) ==
    IF ~IsSome(mockDataMap(endpoint))
    THEN Rejected("Données mockées non trouvées pour: " \o endpoint, {"mock"})
    ELSE Resolved(mockDataMap(endpoint), FALSE, {"mock"})

Legacy_getApiData(endpoint, response) ==
    IF Throws(response)
    THEN Rejected("Échec de l'appel API: " \o ApiError(response), {"live"})
    ELSE Resolved(response.data, FALSE, {"live"})

LegacyFetchData(flag, endpoint, response) ==
    IF flag THEN Legacy_getMockData(endpoint)
    ELSE Legacy_getApiData(endpoint, response)

(***************************************************************************)
(* Request hooks: useApiData (the chart hook useActivityChart built on     *)
(* it), useData (useUserActivity) and the legacy useActivityChart          *)
(***************************************************************************)
HookKinds == {"useApiData", "useData", "useActivityChart"}

\* useState's initial value
InitialState == [data |-> None, loading |-> TRUE, error |-> None]

\* The effect's branch for a falsy userId: useApiData publishes an error and
\* returns, the other two return without touching the state.
MissingIdState(k, s) ==
    IF k = "useApiData"
    THEN [s EXCEPT !.loading = FALSE, !.error = Some("ID utilisateur manquant")]
    ELSE s

\* loadData up to its await: loading true, error null, data kept
StartState(s) == [s EXCEPT !.loading = TRUE, !.error = None]

\* What a settle does to the hook: the new state, whether a state update was
\* made, whether the transformer ran, and which of data / error it wrote.
NoUpdate(s) ==
    [state |-> s, wrote |-> FALSE, transformed |-> FALSE,
     data |-> FALSE, error |-> FALSE]

useApiDataResolved(s, rawData) ==
    [state |-> [data    |-> Some(format(ActivityArgument(rawData))),
                loading |-> FALSE,
                error   |-> None],
     wrote |-> TRUE, transformed |-> TRUE, data |-> TRUE, error |-> TRUE]

useApiDataRejected(s, message) ==
    [state |-> [data    |-> None,
                loading |-> FALSE,
                error   |-> Some(IF message = ""
                                 THEN "Erreur de récupération des données"
                                 ELSE message)],
     wrote |-> TRUE, transformed |-> FALSE, data |-> TRUE, error |-> TRUE]

useDataResolved(s, result) ==
    [state |-> [s EXCEPT !.data = result, !.loading = FALSE],
     wrote |-> TRUE, transformed |-> FALSE, data |-> TRUE, error |-> FALSE]

useDataRejected_KeepData(s, message) ==
    [state |-> [s EXCEPT !.error = Some(message), !.loading = FALSE],
     wrote |-> TRUE, transformed |-> FALSE, data |-> FALSE, error |-> TRUE]

useDataRejected(s, message) ==
    [state |-> [s EXCEPT !.error = Some(message), !.data = None, !.loading = FALSE],
     wrote |-> TRUE, transformed |-> FALSE, data |-> TRUE, error |-> TRUE]

\* the legacy hook updates the state only when rawData?.sessions is truthy
useActivityChartResolved(s, rawData) ==
    LET r == legacyFormat(RawActivityArgument(rawData))
    IN  IF r.outcome = "skip" THEN NoUpdate(s)
        ELSE [state |-> [data    |-> Some([sessions |-> r.sessions]),
                         loading |-> FALSE,
                         error   |-> None],
              wrote |-> TRUE, transformed |-> TRUE, data |-> TRUE, error |-> TRUE]

useActivityChartRejected(s, message) ==
    [state |-> [data |-> None, loading |-> FALSE, error |-> Some(message)],
     wrote |-> TRUE, transformed |-> FALSE, data |-> TRUE, error |-> TRUE]

\* the continuation of loadData after the await, isCancelled being the flag
\* of the cycle's own closure
OnSettle(k, s, outcome, isCancelled) ==
    IF isCancelled THEN NoUpdate(s)
    ELSE IF outcome.status = "resolved"
    THEN CASE k = "useApiData" -> useApiDataResolved(s, outcome.payload)
           [] k = "useData" -> useDataResolved(s, outcome.payload)
           [] k = "useActivityChart" -> useActivityChartResolved(s, outcome.payload)
    ELSE CASE k = "useApiData" -> useApiDataRejected(s, outcome.message)
           [] k = "useData" -> useDataRejected(s, outcome.message)
           [] k = "useActivityChart" -> useActivityChartRejected(s, outcome.message)

\* the gateway behind each hook
Gateway(k, flag, endpoint, response, west) ==
    IF k = "useActivityChart" THEN LegacyFetchData(flag, endpoint, response)
    ELSE fetchData(flag, endpoint, response, west)

(***************************************************************************)
(* Spec: one view using one request hook; the view mounts, its userId      *)
(* changes, it unmounts, and the fetches settle in any order.              *)
(***************************************************************************)
MaxCycles == 3      \* fetch cycles started in one behaviour

\* 0 stands for every falsy identifier (undefined, null, 0, NaN); 12 has a
\* mock entry, 99 has none
UserIds == {0, 12, 99}

LiveResponses(u) ==
    {NetworkError,
     HttpResponse(404, "Not Found", None),
     HttpResponse(200, "OK", None),
     HttpResponse(200, "OK", Some([userId |-> Some(u), sessions |-> None])),
     HttpResponse(200, "OK", Some([userId |-> Some(u), sessions |-> Some(FixtureActivity)]))}

\* mock mode does no network I/O
ResponsesFor(u) ==
    IF USE_MOCK_DATA THEN {NetworkError} ELSE LiveResponses(u)

\* the cycle a call of loadData starts
NewCycle(u, prevInFlight) ==
    [userId |-> u, status |-> "pending", cancelled |-> FALSE,
     prevInFlight |-> prevInFlight, message |-> ""]

\* the effect's cleanup: isCancelled = true in the closure of the latest cycle
CleanUp(cs) ==
    IF cs = <<>> THEN cs ELSE [cs EXCEPT ![Len(cs)].cancelled = TRUE]

\* the latest cycle is neither cancelled nor settled
InFlight(cs) ==
    /\ cs /= <<>>
    /\ ~cs[Len(cs)].cancelled
    /\ cs[Len(cs)].status = "pending"

\* The effect body run for userId u on state s, cs being the cycles after the
\* previous effect's cleanup.
Effect(u, s, cs, prevInFlight) ==
    IF u = 0
    THEN /\ state' = MissingIdState(kind, s)
         /\ cycles' = cs
         /\ fetchLog' = fetchLog
    ELSE /\ Len(cs) < MaxCycles
         /\ state' = StartState(s)
         /\ cycles' = Append(cs, NewCycle(u, prevInFlight))
         /\ fetchLog' = Append(fetchLog,
                [cycle |-> Len(cs) + 1, flag |-> USE_MOCK_DATA,
                 source |-> SourceOf(USE_MOCK_DATA), endpoint |-> Endpoint(u)])

\* USE_MOCK_DATA is static configuration: either value, fixed for the run.
\* The timezone only matters to the dates, which SpecActivity covers.
Init ==
    /\ input = None
    /\ norm = None
    /\ chart = None
    /\ pc = "idle"
    /\ tzWest = FALSE
    /\ kind \in HookKinds
    /\ USE_MOCK_DATA \in BOOLEAN
    /\ view = "none"
    /\ userId = 0
    /\ state = InitialState
    /\ cycles = <<>>
    /\ dataCycle = 0
    /\ errorCycle = 0
    /\ fetchLog = <<>>
    /\ last = NoSettle

Mount(u) ==
    /\ view = "none"
    /\ view' = "mounted"
    /\ userId' = u
    /\ Effect(u, InitialState, cycles, FALSE)
    /\ UNCHANGED <<kind, USE_MOCK_DATA, dataCycle, errorCycle, last>>
    /\ UNCHANGED pureVars

ChangeUser(u) ==
    /\ view = "mounted"
    /\ u /= userId
    /\ userId' = u
    /\ Effect(u, state, CleanUp(cycles), InFlight(cycles))
    /\ errorCycle' = IF u = 0 /\ kind = "useApiData" THEN 0 ELSE errorCycle
    /\ UNCHANGED <<kind, USE_MOCK_DATA, view, dataCycle, last>>
    /\ UNCHANGED pureVars

Unmount ==
    /\ view = "mounted"
    /\ view' = "unmounted"
    /\ cycles' = CleanUp(cycles)
    /\ UNCHANGED <<kind, USE_MOCK_DATA, userId, state, dataCycle, errorCycle,
                   fetchLog, last>>
    /\ UNCHANGED pureVars

Settle(c, response) ==
    /\ cycles[c].status = "pending"
    /\ LET outcome == Gateway(kind, USE_MOCK_DATA, Endpoint(cycles[c].userId),
                              response, tzWest)
           r == OnSettle(kind, state, outcome, cycles[c].cancelled)
       IN  /\ state' = r.state
           /\ cycles' = [cycles EXCEPT ![c].status = outcome.status,
                                       ![c].message = outcome.message]
           /\ dataCycle' = IF r.data THEN c ELSE dataCycle
           /\ errorCycle' = IF r.error THEN c ELSE errorCycle
           /\ last' = [cycle       |-> c,
                       stale       |-> cycles[c].cancelled,
                       wrote       |-> r.wrote,
                       normalized  |-> outcome.normalized,
                       transformed |-> r.transformed,
                       consulted   |-> outcome.consulted,
                       failed      |-> (~USE_MOCK_DATA
                                        /\ Throws(response))]
    /\ UNCHANGED <<kind, USE_MOCK_DATA, view, userId, fetchLog>>
    /\ UNCHANGED pureVars

Next ==
    \/ \E u \in UserIds : Mount(u)
    \/ \E u \in UserIds : ChangeUser(u)
    \/ Unmount
    \/ \E c \in 1..Len(cycles) :
         \E response \in ResponsesFor(cycles[c].userId) : Settle(c, response)

Spec == Init /\ [][Next]_vars

\* the cycle of the mounted view's latest effect, 0 when it has none
Current ==
    IF view = "mounted" /\ cycles /= <<>> /\ ~cycles[Len(cycles)].cancelled
    THEN Len(cycles) ELSE 0

Settled(c) == cycles[c].status /= "pending"

\* the discarding half of C1: a fetch that settles after its cycle was
\* cancelled makes no state update (last is the latest settle, so this is
\* checked at every settle)
StaleNeverWrites == last.stale => ~last.wrote

\* C1: a fetch that settles after its cycle was cancelled (identifier change or
\* unmount while in flight) makes no state update, and once the fetch of the
\* cycle B that replaced an in-flight cycle has settled, the state's data and
\* error are those written by B's settle, not by any other cycle.
C1_StaleDiscarded ==
    /\ StaleNeverWrites
    /\ (Current /= 0 /\ cycles[Current].prevInFlight /\ Settled(Current)) =>
          /\ IsSome(state.data) => dataCycle = Current
          /\ IsSome(state.error) => errorCycle = Current

\* C1 holds of the two hooks that write the state on every settle of the
\* current cycle.
StaleDiscardedByRequestHooks ==
    kind \in {"useApiData", "useData"} => C1_StaleDiscarded

\* both orders happen: here the stale fetch resolved after the current one
StaleNeverWrites_Witness ==
    /\ Current >= 2
    /\ Settled(Current)
    /\ cycles[Current].prevInFlight
    /\ last.cycle = Current - 1
    /\ last.stale
    /\ cycles[Current - 1].status = "resolved"
    /\ state.data /= None

\* C2: when the fetch of the current cycle has rejected, the state is
\* loading = false, data = null, error = the failure's message, and neither the
\* normalizer nor the transformer ran on that fetch.
C2_RejectGivesErrorState ==
    (Current /= 0 /\ cycles[Current].status = "rejected") =>
        /\ state = [data |-> None, loading |-> FALSE,
                    error |-> Some(cycles[Current].message)]
        /\ cycles[Current].message /= ""
        /\ last.cycle = Current => (~last.normalized /\ ~last.transformed)

\* a cycle that replaced one with data has rejected with an HTTP failure
C2_Witness ==
    /\ kind = "useData"
    /\ Current >= 2
    /\ dataCycle = Current
    /\ last.cycle = Current
    /\ cycles[1].status = "resolved"
    /\ cycles[Current].status = "rejected"
    /\ state.error = Some("Échec de l'appel API: Erreur HTTP: 404 - Not Found")

\* C3: every cycle issued exactly one gateway fetch, for its own endpoint, to
\* the source the mode flag selects; a settled fetch consulted that source only,
\* and a live fetch that failed was rejected: no mock data, no second fetch.
C3_OneFetchNoFallback ==
    /\ Len(fetchLog) = Len(cycles)
    /\ \A c \in 1..Len(cycles) :
         /\ Cardinality({i \in 1..Len(fetchLog) : fetchLog[i].cycle = c}) = 1
         /\ fetchLog[c].endpoint = Endpoint(cycles[c].userId)
         /\ fetchLog[c].source = (IF USE_MOCK_DATA THEN "mock" ELSE "live")
    /\ last.cycle /= 0 =>
         /\ last.consulted = {fetchLog[last.cycle].source}
         /\ last.failed =>
              /\ cycles[last.cycle].status = "rejected"
              /\ (Current = last.cycle => state.data = None)

\* a live fetch for a user the mock table knows has failed and was rejected
C3_Witness ==
    /\ Current /= 0
    /\ last.cycle = Current
    /\ ~USE_MOCK_DATA
    /\ last.failed
    /\ cycles[Current].status = "rejected"
    /\ IsSome(mockDataMap(Endpoint(cycles[Current].userId)))
    /\ IsSome(state.error)
    /\ Len(fetchLog) = Len(cycles)

(***************************************************************************)
(* DataNormalizer.normalizeUser                                            *)
(* Scores are in thousandths, as in calculatePercentage above.             *)
(***************************************************************************)
UserScore_Truthy(rawData) == OrElse(rawData.todayScore, OrElse(rawData.score, 0))

\* rawData.todayScore ?? rawData.score ?? 0
UserScore(rawData) == Coalesce(rawData.todayScore, Coalesce(rawData.score, 0))

\* rawData.userInfos?.field ?? default, for each field
normalizeUserInfos(userInfos) ==
    [firstName |-> IF IsSome(userInfos) THEN Coalesce(Get(userInfos).firstName, "") ELSE "",
     lastName  |-> IF IsSome(userInfos) THEN Coalesce(Get(userInfos).lastName, "") ELSE "",
     age       |-> IF IsSome(userInfos) THEN Coalesce(Get(userInfos).age, 0) ELSE 0]

\* rawData.keyData?.field ?? 0, for each field
normalizeKeyData(keyData) ==
    [calorieCount      |-> IF IsSome(keyData) THEN Coalesce(Get(keyData).calorieCount, 0) ELSE 0,
     proteinCount      |-> IF IsSome(keyData) THEN Coalesce(Get(keyData).proteinCount, 0) ELSE 0,
     carbohydrateCount |-> IF IsSome(keyData) THEN Coalesce(Get(keyData).carbohydrateCount, 0) ELSE 0,
     lipidCount        |-> IF IsSome(keyData) THEN Coalesce(Get(keyData).lipidCount, 0) ELSE 0]

\* rawData: None or Some([id, userInfos, todayScore, score, keyData])
normalizeUser(rawData) ==
    IF ~IsSome(rawData) THEN None
    ELSE Some([id         |-> Coalesce(Get(rawData).id, 0),
               userInfos  |-> normalizeUserInfos(Get(rawData).userInfos),
               todayScore |-> UserScore(Get(rawData)),
               score      |-> UserScore(Get(rawData)),
               keyData    |-> normalizeKeyData(Get(rawData).keyData)])

\* the normalized profile as calculatePercentage reads it
UserArgument(n) ==
    IF ~IsSome(n) THEN None
    ELSE Some([todayScore |-> Some(Get(n).todayScore), score |-> Some(Get(n).score)])

\* a raw profile as a score reader sees it
RawUserArgument(rawData) ==
    IF ~IsSome(rawData) THEN None
    ELSE Some([todayScore |-> Get(rawData).todayScore, score |-> Get(rawData).score])

\* The body of the legacy useScoreChart between the await and setState:
\* rawData?.todayScore || rawData?.score || 0, Math.round(score * 100), no clamp.
legacyScore(rawData) ==
    IF ~IsSome(rawData) THEN [percentage |-> RoundPercent(0)]
    ELSE [percentage |->
            RoundPercent(OrElse(Get(rawData).todayScore, OrElse(Get(rawData).score, 0)))]

(***************************************************************************)
(* SpecUser: raw profile -> normalizeUser -> calculatePercentage; the      *)
(* score is also read from the raw profile (direct call, and the legacy    *)
(* useScoreChart hook).                                                    *)
(***************************************************************************)
mockUserData ==
    [id         |-> Some(12),
     userInfos  |-> Some([firstName |-> Some("Karl"), lastName |-> Some("Dovineau"),
                          age |-> Some(31)]),
     todayScore |-> Some(120),
     score      |-> None,
     keyData    |-> Some([calorieCount |-> Some(1930), proteinCount |-> Some(155),
                          carbohydrateCount |-> Some(290), lipidCount |-> Some(50)])]

mockUserDataUser18 ==
    [id         |-> Some(18),
     userInfos  |-> Some([firstName |-> Some("Cecilia"), lastName |-> Some("Ratorez"),
                          age |-> Some(34)]),
     todayScore |-> Some(300),
     score      |-> None,
     keyData    |-> Some([calorieCount |-> Some(2103), proteinCount |-> Some(132),
                          carbohydrateCount |-> Some(271), lipidCount |-> Some(68)])]

\* score values of a raw profile: absent, 0, in range, above 1, below 0
RawScores == {None, Some(0), Some(120), Some(300), Some(1200), Some(0 - 100)}

\* nutrient values of a raw profile
RawCounts == {None, Some(0), Some(50), Some(0 - 5)}

RawKeyData ==
    {None, mockUserData.keyData, mockUserDataUser18.keyData}
    \cup { Some([calorieCount |-> c, proteinCount |-> q,
                 carbohydrateCount |-> c, lipidCount |-> l]) :
             c \in RawCounts, q \in RawCounts, l \in RawCounts }

RawUserInfos ==
    {None, mockUserData.userInfos,
     Some([firstName |-> None, lastName |-> None, age |-> None])}

UserInputs ==
    {None, Some(mockUserData), Some(mockUserDataUser18)}
    \cup { Some([id |-> Some(12), userInfos |-> u, todayScore |-> t,
                 score |-> sc, keyData |-> k]) :
             u \in RawUserInfos, t \in RawScores, sc \in RawScores, k \in RawKeyData }
    \cup { Some([id |-> None, userInfos |-> None, todayScore |-> t,
                 score |-> sc, keyData |-> None]) :
             t \in RawScores, sc \in RawScores }

InitUser ==
    /\ input \in UserInputs
    /\ norm = None
    /\ chart = None
    /\ pc = "init"
    /\ tzWest = FALSE
    /\ HooksIdle

NormalizeUserStep ==
    /\ pc = "init"
    /\ norm' = Some(normalizeUser(input))
    /\ pc' = "normalized"
    /\ UNCHANGED <<input, chart, tzWest>>
    /\ UNCHANGED hookVars

ScoreChartStep ==
    /\ pc = "normalized"
    /\ chart' = Some([by |-> "calculatePercentage",
                      percentage |-> calculatePercentage(UserArgument(Get(norm))).percentage])
    /\ pc' = "charted"
    /\ UNCHANGED <<input, norm, tzWest>>
    /\ UNCHANGED hookVars

ScoreChartRawStep ==
    /\ pc = "init"
    /\ chart' = Some([by |-> "calculatePercentage",
                      percentage |-> calculatePercentage(RawUserArgument(input)).percentage])
    /\ pc' = "charted"
    /\ UNCHANGED <<input, norm, tzWest>>
    /\ UNCHANGED hookVars

LegacyScoreStep ==
    /\ pc = "init"
    /\ chart' = Some([by |-> "useScoreChart",
                      percentage |-> legacyScore(input).percentage])
    /\ pc' = "charted"
    /\ UNCHANGED <<input, norm, tzWest>>
    /\ UNCHANGED hookVars

NextUser ==
    \/ NormalizeUserStep
    \/ ScoreChartStep
    \/ ScoreChartRawStep
    \/ LegacyScoreStep

SpecUser == InitUser /\ [][NextUser]_vars

\* normalizeUser has returned a record
UserNormalized == pc /= "init" /\ IsSome(norm) /\ IsSome(Get(norm))

\* C11: the unified score of a normalized profile is todayScore when that field
\* is defined (0 included), otherwise score when defined, otherwise 0, and both
\* score fields of the normalized record hold it.
C11_FirstDefinedWins ==
    UserNormalized =>
        /\ Get(Get(norm)).score =
             (IF IsSome(Get(input).todayScore) THEN Get(Get(input).todayScore)
              ELSE IF IsSome(Get(input).score) THEN Get(Get(input).score)
              ELSE 0)
        /\ Get(Get(norm)).todayScore = Get(Get(norm)).score

\* todayScore 0 has won over score 0.3
C11_Witness ==
    /\ UserNormalized
    /\ Get(input).todayScore = Some(0)
    /\ Get(input).score = Some(300)
    /\ Get(Get(norm)).score = 0
    /\ Get(Get(norm)).todayScore = 0

\* C12: the record normalizeUser returns has its score within [0,1] and each of
\* its four nutrient fields a non-negative integer.
C12_ProfileInvariant ==
    UserNormalized =>
        /\ Get(Get(norm)).score >= 0
        /\ Get(Get(norm)).score <= 1000
        /\ Get(Get(norm)).keyData.calorieCount \in Nat
        /\ Get(Get(norm)).keyData.proteinCount \in Nat
        /\ Get(Get(norm)).keyData.carbohydrateCount \in Nat
        /\ Get(Get(norm)).keyData.lipidCount \in Nat

(***************************************************************************)
(* Further properties of normalizePerformance (SpecRadar)                  *)
(***************************************************************************)
KnownSlugs == {"cardio", "energy", "endurance", "strength", "speed", "intensity"}

\* the slug the fixed table gives a wire id, for the ids it holds
SlugOfId(id) ==
    CASE id = 1 -> "cardio"
      [] id = 2 -> "energy"
      [] id = 3 -> "endurance"
      [] id = 4 -> "strength"
      [] id = 5 -> "speed"
      [] id = 6 -> "intensity"

\* C13: normalizePerformance returns one entry per input entry, in input order,
\* each with the slug of its kind id when the table holds the id and "unknown"
\* otherwise; an unrecognized id neither drops nor fails the entry.
C13_OneEntryPerInput ==
    (pc /= "init" /\ IsSome(norm) /\ IsSome(Get(norm))) =>
        LET out == Get(Get(norm)).data
        IN  /\ Len(out) = Len(InputData)
            /\ \A i \in 1..Len(out) :
                 /\ out[i].value = Coalesce(InputData[i].value, 0)
                 /\ out[i].kind = Coalesce(InputData[i].kind, 0)
                 /\ out[i].kindName \in KnownSlugs \cup {"unknown"}
                 /\ (IsSome(InputData[i].kind) /\ Get(InputData[i].kind) \in 1..6)
                      => out[i].kindName = SlugOfId(Get(InputData[i].kind))
                 /\ ~(IsSome(InputData[i].kind) /\ Get(InputData[i].kind) \in 1..6)
                      => out[i].kindName = "unknown"

\* an entry with the unrecognized id 7 was kept, before a recognized one
C13_Witness ==
    /\ pc = "normalized"
    /\ IsSome(Get(norm))
    /\ Len(InputData) = 2
    /\ InputData[1].kind = Some(7)
    /\ InputData[2].kind = Some(6)
    /\ Get(Get(norm)).data[1].kindName = "unknown"
    /\ Get(Get(norm)).data[2].kindName = "intensity"

(***************************************************************************)
(* DataNormalizer.normalizeByEndpoint: the dispatch on the endpoint string *)
(* An endpoint string is held as its sequence of lexemes: "/", a word, or  *)
(* one character; "/user/12/activity" is                                   *)
(* <<"/", "user", "/", "1", "2", "/", "activity">>.                        *)
(***************************************************************************)
\* endpoint.includes(pattern)
Includes(endpoint, pattern) ==
    \E i \in 1..(Len(endpoint) + 1 - Len(pattern)) :
        SubSeq(endpoint, i, i + Len(pattern) - 1) = pattern

\* \d
IsDigit(lexeme) == lexeme \in {"0", "1", "2", "3", "4", "5", "6", "7", "8", "9"}

\* endpoint.match(/\/user\/\d+$/): "/user/" then one or more digits up to the end
MatchesUserPath(endpoint) ==
    \E i \in 1..Len(endpoint) :
        /\ i + 3 <= Len(endpoint)
        /\ SubSeq(endpoint, i, i + 2) = <<"/", "user", "/">>
        /\ \A j \in (i + 3)..Len(endpoint) : IsDigit(endpoint[j])

NormalizerFor_ActivityFirst(endpoint) ==
    IF Includes(endpoint, <<"/", "activity">>) THEN "normalizeActivity"
    ELSE IF Includes(endpoint, <<"/", "performance">>) THEN "normalizePerformance"
    ELSE IF Includes(endpoint, <<"/", "average-sessions">>) THEN "normalizeSessions"
    ELSE IF MatchesUserPath(endpoint) THEN "normalizeUser"
    ELSE "none"

\* the chain of tests inside the try block: the normalizer applied, "none"
\* when the raw payload is returned
NormalizerFor(endpoint) ==
    IF Includes(endpoint, <<"/", "performance">>) THEN "normalizePerformance"
    ELSE IF Includes(endpoint, <<"/", "average-sessions">>) THEN "normalizeSessions"
    ELSE IF Includes(endpoint, <<"/", "activity">>) THEN "normalizeActivity"
    ELSE IF MatchesUserPath(endpoint) THEN "normalizeUser"
    ELSE "none"

\* normalizeByEndpoint(endpoint, rawData) as a router: which normalizer the
\* payload went through ("none": returned as it is) and the payload it was
\* given. An empty endpoint or a falsy payload is returned without dispatch.
Dispatch(endpoint, rawData) ==
    IF endpoint = <<>> \/ ~IsSome(rawData)
    THEN [normalizer |-> "none", payload |-> rawData]
    ELSE [normalizer |-> NormalizerFor(endpoint), payload |-> rawData]

(***************************************************************************)
(* SpecDispatch: endpoints built from up to MaxSegments path segments,     *)
(* plus a few written out, handed to normalizeByEndpoint with a payload    *)
(***************************************************************************)
MaxSegments == 3

\* a path segment, as lexemes
Segments ==
    {<<"user">>, <<"1", "2">>, <<"performance">>, <<"average-sessions">>,
     <<"activity">>, <<"x">>}

\* "/" + segment for each segment in turn
RECURSIVE PathOf(_)
PathOf(segments) ==
    IF segments = <<>> THEN <<>>
    ELSE <<"/">> \o Head(segments) \o PathOf(Tail(segments))

SegmentLists == UNION { [1..n -> Segments] : n \in 0..MaxSegments }

\* endpoints that are not "/"-joined segments of the alphabet
OddEndpoints ==
    {<<"/", "user", "/", "1", "2", "/">>,                  \* /user/12/
     <<"user", "/", "1", "2">>,                            \* user/12
     <<"/", "user", "/", "-", "5">>,                       \* /user/-5
     <<"/", "api", "/", "user", "/", "7">>,                \* /api/user/7
     <<"/", "users", "/", "1", "2">>,                      \* /users/12
     <<"/", "user", "/", "1", "2", "/", "Activity">>,      \* /user/12/Activity
     <<"/", "user", "/", "1", "2", "/", "activity", "?", "x">>,  \* /user/12/activity?x
     <<"performance">>}                                    \* performance

\* the payload handed over, by the resource it came from; None: falsy
DispatchPayloads ==
    {None, Some("profile"), Some("activity"), Some("average-sessions"), Some("performance")}

InitDispatch ==
    /\ input \in [segments : SegmentLists, endpoint : {<<>>}, rawData : DispatchPayloads]
                 \cup [segments : {<<>>}, endpoint : OddEndpoints, rawData : DispatchPayloads]
    /\ norm = None
    /\ chart = None
    /\ pc = "init"
    /\ tzWest = FALSE
    /\ HooksIdle

\* the endpoint string of an input: the written-out one, or its segments joined
EndpointOf(in) ==
    IF in.endpoint /= <<>> THEN in.endpoint ELSE PathOf(in.segments)

NormalizeByEndpointStep ==
    /\ pc = "init"
    /\ norm' = Some(Dispatch(EndpointOf(input), input.rawData))
    /\ pc' = "normalized"
    /\ UNCHANGED <<input, chart, tzWest>>
    /\ UNCHANGED hookVars

NextDispatch == NormalizeByEndpointStep

SpecDispatch == InitDispatch /\ [][NextDispatch]_vars

\* segment seg occurs in the input's segment list
HasSegment(seg) == \E i \in 1..Len(input.segments) : input.segments[i] = seg

\* the segment list ends with user, <digits>
EndsWithUserId ==
    /\ Len(input.segments) >= 2
    /\ input.segments[Len(input.segments) - 1] = <<"user">>
    /\ input.segments[Len(input.segments)] = <<"1", "2">>

\* the normalizer the priority order performance, average-sessions, activity,
\* profile path gives the written-out endpoints
OddExpected ==
    CASE input.endpoint = <<"/", "api", "/", "user", "/", "7">> -> "normalizeUser"
      [] input.endpoint = <<"/", "user", "/", "1", "2", "/", "activity", "?", "x">>
           -> "normalizeActivity"
      [] OTHER -> "none"

\* C14: for a present payload normalizeByEndpoint applies the normalizer of the
\* first of performance, average-sessions, activity that occurs in the
\* endpoint, else the profile normalizer when the endpoint ends with
\* /user/<digits>, else none; and when it applies none the payload is returned
\* unchanged.
C14_DispatchPriority ==
    (pc = "normalized" /\ IsSome(input.rawData)) =>
        /\ Get(norm).payload = input.rawData
        /\ Get(norm).normalizer =
             (IF input.endpoint /= <<>> THEN OddExpected
              ELSE IF HasSegment(<<"performance">>) THEN "normalizePerformance"
              ELSE IF HasSegment(<<"average-sessions">>) THEN "normalizeSessions"
              ELSE IF HasSegment(<<"activity">>) THEN "normalizeActivity"
              ELSE IF EndsWithUserId THEN "normalizeUser"
              ELSE "none")

\* an endpoint naming both activity and performance went to normalizePerformance
C14_Witness ==
    /\ pc = "normalized"
    /\ input.segments = <<<<"activity">>, <<"performance">>>>
    /\ IsSome(input.rawData)
    /\ Get(norm).normalizer = "normalizePerformance"

\* the four resource endpoints of a user and an endpoint matching nothing
C14_Examples ==
    (pc = "normalized" /\ IsSome(input.rawData)) =>
        /\ input.segments = <<<<"user">>, <<"1", "2">>, <<"performance">>>>
             => Get(norm).normalizer = "normalizePerformance"
        /\ input.segments = <<<<"user">>, <<"1", "2">>, <<"average-sessions">>>>
             => Get(norm).normalizer = "normalizeSessions"
        /\ input.segments = <<<<"user">>, <<"1", "2">>, <<"activity">>>>
             => Get(norm).normalizer = "normalizeActivity"
        /\ input.segments = <<<<"user">>, <<"1", "2">>>>
             => Get(norm).normalizer = "normalizeUser"
        /\ input.segments = <<<<"user">>, <<"x">>>>
             => (Get(norm).normalizer = "none" /\ Get(norm).payload = input.rawData)

(***************************************************************************)
(* DataService over its four resources: getUserById, getUserActivity,      *)
(* getUserAverageSessions, getUserPerformance -> fetchData -> mock table   *)
(* or network -> normalizeByEndpoint                                       *)
(***************************************************************************)
\* the resource kinds, named by the last path segment ("user": the profile)
Resources == {"user", "activity", "average-sessions", "performance"}

\* the decimal digits of a user id, as lexemes
RECURSIVE Digits(_)
Digits(n) ==
    LET digit == <<"0", "1", "2", "3", "4", "5", "6", "7", "8", "9">>
    IN  IF n < 10 THEN <<digit[n + 1]>>
        ELSE Digits(n \div 10) \o <<digit[(n % 10) + 1]>>

\* the endpoint templates `/user/${userId}` and `/user/${userId}/<resource>`
EndpointText(resource, u) ==
    IF resource = "user" THEN "/user/" \o ToString(u)
    ELSE "/user/" \o ToString(u) \o "/" \o resource

\* the same endpoint as lexemes, as normalizeByEndpoint tests it
EndpointLexemes(resource, u) ==
    IF resource = "user" THEN <<"/", "user", "/">> \o Digits(u)
    ELSE <<"/", "user", "/">> \o Digits(u) \o <<"/", resource>>

mockSessionsData ==
    [userId   |-> Some(12),
     sessions |-> Some([i \in 1..7 |-> [day |-> Some(i), sessionLength |-> Some(FixtureLen[i])]])]

mockSessionsDataUser18 ==
    [userId   |-> Some(18),
     sessions |-> Some([i \in 1..7 |->
                         [day |-> Some(i),
                          sessionLength |-> Some(<<45, 35, 60, 25, 55, 40, 70>>[i])]])]

mockPerformanceData ==
    [userId |-> Some(12),
     kind   |-> Some(WireKind),
     data   |-> Some([i \in 1..6 |->
                       [kind |-> Some(i), value |-> Some(<<80, 120, 140, 50, 200, 90>>[i])]])]

mockPerformanceDataUser18 ==
    [userId |-> Some(18),
     kind   |-> Some(WireKind),
     data   |-> Some([i \in 1..6 |->
                       [kind |-> Some(i), value |-> Some(<<150, 180, 200, 90, 250, 160>>[i])]])]

\* the fixture another lookup order would hand out: the default user's
mockFunction_DefaultUser(resource, u) ==
    CASE resource = "user"             -> Some(mockUserDataUser18)
      [] resource = "activity"         -> Some(mockActivityDataUser18)
      [] resource = "average-sessions" -> Some(mockSessionsDataUser18)
      [] resource = "performance"      -> Some(mockPerformanceDataUser18)

\* mockDataMap[endpoint]() for the endpoint of (resource, u): the eight keys
\* of the table, None for any other key
mockFunction(resource, u) ==
    IF u = DEFAULT_USER_ID
    THEN CASE resource = "user"             -> Some(mockUserDataUser18)
           [] resource = "activity"         -> Some(mockActivityDataUser18)
           [] resource = "average-sessions" -> Some(mockSessionsDataUser18)
           [] resource = "performance"      -> Some(mockPerformanceDataUser18)
    ELSE IF u = 12
    THEN CASE resource = "user"             -> Some(mockUserData)
           [] resource = "activity"         -> Some(mockActivityData)
           [] resource = "average-sessions" -> Some(mockSessionsData)
           [] resource = "performance"      -> Some(mockPerformanceData)
    ELSE None

\* normalizeByEndpoint(endpoint, rawData): the payload after the normalizer
\* the dispatch selects, and whether one was applied
NormalizeByEndpoint(endpoint, rawData, west) ==
    LET normalizer == Dispatch(endpoint, rawData).normalizer
    IN  CASE normalizer = "normalizePerformance" ->
               [payload |-> normalizePerformance(rawData), normalized |-> TRUE]
          [] normalizer = "normalizeSessions" ->
               [payload |-> normalizeSessions(rawData), normalized |-> TRUE]
          [] normalizer = "normalizeActivity" ->
               [payload |-> normalizeActivity(rawData, west), normalized |-> TRUE]
          [] normalizer = "normalizeUser" ->
               [payload |-> normalizeUser(rawData), normalized |-> TRUE]
          [] OTHER -> [payload |-> rawData, normalized |-> FALSE]

\* _getMockData for the endpoint of (resource, u)
GetMockData(resource, u, west) ==
    IF ~IsSome(mockFunction(resource, u))
    THEN Rejected("Données mockées non trouvées pour: " \o EndpointText(resource, u), {"mock"})
    ELSE LET n == NormalizeByEndpoint(EndpointLexemes(resource, u), mockFunction(resource, u), west)
         IN  Resolved(n.payload, n.normalized, {"mock"})

\* _getApiData for the endpoint of (resource, u), given what the network answers
GetApiData(resource, u, response, west) ==
    IF Throws(response)
    THEN Rejected("Échec de l'appel API: " \o ApiError(response), {"live"})
    ELSE LET n == NormalizeByEndpoint(EndpointLexemes(resource, u), response.data, west)
         IN  Resolved(n.payload, n.normalized, {"live"})

\* fetchData for the endpoint of (resource, u)
FetchResource(flag, resource, u, response, west) ==
    IF flag THEN GetMockData(resource, u, west)
    ELSE GetApiData(resource, u, response, west)

\* one card of the Dashboard: value is None for the placeholder '---', else
\* the count the text shows in front of the unit
StatCard(label, count, unit) ==
    [label |-> label,
     value |-> IF count /= 0 THEN Some(count) ELSE None,
     unit  |-> unit]

\* the cards shown while there is no profile: four placeholders
statsData_Placeholders(userData) ==
    <<[label |-> "Calories", value |-> None, unit |-> "kCal"],
      [label |-> "Protéines", value |-> None, unit |-> "g"],
      [label |-> "Glucides", value |-> None, unit |-> "g"],
      [label |-> "Lipides", value |-> None, unit |-> "g"]>>

\* Dashboard.statsData on the profile useUser delivers (userData: the
\* normalized profile, or None)
statsData(userData) ==
    IF ~IsSome(userData)
    THEN <<StatCard("Calories", 0, "kCal"), StatCard("Protéines", 0, "g"),
           StatCard("Glucides", 0, "g"), StatCard("Lipides", 0, "g")>>
    ELSE <<StatCard("Calories", Get(userData).keyData.calorieCount, "kCal"),
           StatCard("Protéines", Get(userData).keyData.proteinCount, "g"),
           StatCard("Glucides", Get(userData).keyData.carbohydrateCount, "g"),
           StatCard("Lipides", Get(userData).keyData.lipidCount, "g")>>

\* the transformer each chart hook hands to useApiData, applied to the payload
\* the gateway resolved with; for the profile, also the stat cards the
\* Dashboard derives from it
TransformResource(resource, payload) ==
    CASE resource = "user" ->
           [by |-> "calculatePercentage",
            percentage |-> calculatePercentage(UserArgument(payload)).percentage,
            stats |-> statsData(payload)]
      [] resource = "activity" ->
           [by |-> "format", sessions |-> format(ActivityArgument(payload)).sessions]
      [] resource = "average-sessions" ->
           [by |-> "addGhostPoints",
            sessions |-> addGhostPoints(SessionsArgument(payload)).sessions]
      [] resource = "performance" ->
           [by |-> "formatForRadar", radar |-> formatForRadar(PerformanceArgument(payload))]

(***************************************************************************)
(* SpecGateway: one fetch of a resource of a user, in mock or live mode,   *)
(* then the chart transformer of the resource on the resolved payload      *)
(***************************************************************************)
GatewayUserIds == {0, 7, 12, 18, 99, 120, 181}

\* payloads a live response may carry in its data field, per resource: the
\* fixtures, and payloads whose fields are missing or of the wrong type
\* (a field of the wrong type reads as a missing one)
LivePayloads(resource) ==
    CASE resource = "user" ->
           {mockUserData, mockUserDataUser18,
            [id |-> None, userInfos |-> None, todayScore |-> None, score |-> None,
             keyData |-> None],
            [id |-> Some(12), userInfos |-> None, todayScore |-> None, score |-> Some(500),
             keyData |-> Some([calorieCount |-> None, proteinCount |-> Some(155),
                               carbohydrateCount |-> None, lipidCount |-> None])]}
      [] resource = "activity" ->
           {mockActivityData, mockActivityDataUser18,
            [userId |-> None, sessions |-> None],
            [userId |-> Some(12), sessions |-> Some(<<>>)],
            [userId |-> Some(12),
             sessions |-> Some(<<[day |-> Some("not-a-date"), kilogram |-> None,
                                  calories |-> None]>>)]}
      [] resource = "average-sessions" ->
           {mockSessionsData, mockSessionsDataUser18,
            [userId |-> None, sessions |-> None],
            [userId |-> Some(12), sessions |-> Some(<<>>)],
            [userId |-> Some(12),
             sessions |-> Some(<<[day |-> None, sessionLength |-> None]>>)]}
      [] resource = "performance" ->
           {mockPerformanceData, mockPerformanceDataUser18,
            [userId |-> None, kind |-> None, data |-> None],
            [userId |-> Some(12), kind |-> Some(WireKind), data |-> Some(<<>>)],
            [userId |-> Some(12), kind |-> None,
             data |-> Some(<<[kind |-> Some(9), value |-> None]>>)]}

\* what the network may answer a request for a resource
GatewayResponses(resource) ==
    {NetworkError}
    \cup { HttpResponse(st[1], st[2], None) :
             st \in {<<199, "">>, <<300, "Multiple Choices">>, <<304, "Not Modified">>,
                     <<404, "Not Found">>, <<500, "Internal Server Error">>} }
    \cup { HttpBody(st[1], st[2], j) :
             st \in {<<200, "OK">>, <<204, "No Content">>, <<404, "Not Found">>},
             j \in {"invalid", "null"} }
    \cup { HttpResponse(st[1], st[2], d) :
             st \in {<<200, "OK">>, <<299, "">>},
             d \in {None} \cup { Some(x) : x \in LivePayloads(resource) } }

InitGateway ==
    /\ \E resource \in Resources, u \in GatewayUserIds :
         \E response \in GatewayResponses(resource) :
            input = [resource |-> resource, userId |-> u, response |-> response]
    /\ norm = None
    /\ chart = None
    /\ pc = "init"
    /\ tzWest = FALSE
    /\ kind = "none"
    /\ USE_MOCK_DATA \in BOOLEAN
    /\ view = "none"
    /\ userId = 0
    /\ state = [data |-> None, loading |-> TRUE, error |-> None]
    /\ cycles = <<>>
    /\ dataCycle = 0
    /\ errorCycle = 0
    /\ fetchLog = <<>>
    /\ last = NoSettle

\* DataService.getUserById / getUserActivity / getUserAverageSessions /
\* getUserPerformance: norm holds the settled promise
FetchDataStep ==
    /\ pc = "init"
    /\ norm' = Some(FetchResource(USE_MOCK_DATA, input.resource, input.userId,
                                  input.response, tzWest))
    /\ pc' = "fetched"
    /\ UNCHANGED <<input, chart, tzWest>>
    /\ UNCHANGED hookVars

\* the transformer of the chart hook, on a resolved fetch
TransformStep ==
    /\ pc = "fetched"
    /\ Get(norm).status = "resolved"
    /\ chart' = Some(TransformResource(input.resource, Get(norm).payload))
    /\ pc' = "charted"
    /\ UNCHANGED <<input, norm, tzWest>>
    /\ UNCHANGED hookVars

NextGateway == FetchDataStep \/ TransformStep

SpecGateway == InitGateway /\ [][NextGateway]_vars

\* the fetch of the input has settled
Fetched == pc \in {"fetched", "charted"}

\* the (resource, userId) pair of the input is one of the eight seeded ones
Seeded == input.userId \in {12, 18}

\* the fixture of mockData.js for a resource of a seeded user
FixtureOf(resource, u) ==
    IF u = 12
    THEN CASE resource = "user"             -> mockUserData
           [] resource = "activity"         -> mockActivityData
           [] resource = "average-sessions" -> mockSessionsData
           [] resource = "performance"      -> mockPerformanceData
    ELSE CASE resource = "user"             -> mockUserDataUser18
           [] resource = "activity"         -> mockActivityDataUser18
           [] resource = "average-sessions" -> mockSessionsDataUser18
           [] resource = "performance"      -> mockPerformanceDataUser18

\* the normalized form of a fixture
NormalizedFixture(resource, u) ==
    CASE resource = "user"             -> normalizeUser(Some(FixtureOf(resource, u)))
      [] resource = "activity"         -> normalizeActivity(Some(FixtureOf(resource, u)), tzWest)
      [] resource = "average-sessions" -> normalizeSessions(Some(FixtureOf(resource, u)))
      [] resource = "performance"      -> normalizePerformance(Some(FixtureOf(resource, u)))

RequestFailed == ~input.response.arrived \/ ~ResponseOk(input.response)

\* C16: in live mode a response with a status outside the success range makes
\* the fetch reject with an error whose message holds the status code, a
\* transport failure makes it reject with an error whose message holds the
\* transport error's; no payload is returned, normalized or charted.
C16_LiveFailures ==
    (Fetched /\ ~USE_MOCK_DATA /\ RequestFailed) =>
        /\ Get(norm).status = "rejected"
        /\ Get(norm).payload = None
        /\ ~Get(norm).normalized
        /\ Get(norm).consulted = {"live"}
        /\ chart = None
        /\ Get(norm).message =
             (IF ~input.response.arrived
              THEN "Échec de l'appel API: Failed to fetch"
              ELSE "Échec de l'appel API: Erreur HTTP: "
                     \o ToString(input.response.status) \o " - "
                     \o input.response.statusText)

\* a 404 was rejected with a message holding 404
C16_Witness ==
    /\ Fetched
    /\ ~USE_MOCK_DATA
    /\ input.response.arrived
    /\ input.response.status = 404
    /\ Get(norm).status = "rejected"
    /\ Get(norm).message = "Échec de l'appel API: Erreur HTTP: 404 - Not Found"

\* C17: in live mode a response with a success status never makes the fetch
\* reject, whatever its body.
C17_SuccessNeverRejects ==
    (Fetched /\ ~USE_MOCK_DATA /\ input.response.arrived /\ ResponseOk(input.response)) =>
        Get(norm).status = "resolved"

\* the part of C17 about bodies that parse to a JSON object: an envelope
\* without data resolves with no payload, a payload with missing fields
\* resolves normalized
SuccessObjectResolves ==
    (Fetched /\ ~USE_MOCK_DATA /\ input.response.arrived /\ ResponseOk(input.response)
       /\ input.response.json = "object") =>
        /\ Get(norm).status = "resolved"
        /\ Get(norm).normalized <=> IsSome(input.response.data)
        /\ IsSome(Get(norm).payload) <=> IsSome(input.response.data)

(***************************************************************************)
(* The chart transformers on an empty or absent input                      *)
(***************************************************************************)
\* the performance payload handed to formatForRadar is absent, has no data
\* array, or has an empty one
RadarInputEmpty ==
    \/ ~IsSome(input)
    \/ ~IsSome(Get(input).data)
    \/ Len(Get(Get(input).data)) = 0

\* C18: formatForRadar, handed an empty or absent input, returns the radar of
\* six axes, in the display order, every value 0.
C18_EmptyInputRadar ==
    (pc = "charted" /\ RadarInputEmpty) =>
        LET out == Get(chart).radar
        IN  /\ Len(out) = 6
            /\ \A k \in 1..6 :
                 /\ out[k].subject = SlotLabel[k]
                 /\ out[k].value = Some(0)

\* the part of C18 that holds for the radar: an empty data array gives six zeros
EmptyArrayRadar ==
    (pc = "charted" /\ IsSome(input) /\ IsSome(Get(input).data)
       /\ Len(Get(Get(input).data)) = 0) =>
        /\ Len(Get(chart).radar) = 6
        /\ \A k \in 1..6 : Get(chart).radar[k].value = Some(0)

\* what formatForRadar returns for an absent payload, and for a payload without
\* a data array that did not go through the normalizer: the empty list
AbsentRadarIsEmptyList ==
    (pc = "charted"
       /\ (~IsSome(input) \/ (norm = None /\ ~IsSome(Get(input).data)))) =>
        Get(chart).radar = <<>>

\* format, on an absent payload or absent or empty sessions: the empty list
\* (SpecActivity)
EmptyInputActivity ==
    (pc = "charted" /\ Get(chart).by = "format"
       /\ (~IsSome(input) \/ ~IsSome(Get(input).sessions)
           \/ Len(Get(Get(input).sessions)) = 0)) =>
        Get(chart).sessions = <<>>

\* addGhostPoints, on an absent payload or absent or empty sessions: the empty
\* list, no ghost points (SpecSessions)
EmptyInputSessions ==
    (pc = "charted" /\ Get(chart).by = "addGhostPoints"
       /\ (~IsSome(input) \/ ~IsSome(Get(input).sessions)
           \/ Len(Get(Get(input).sessions)) = 0)) =>
        Get(chart).sessions = <<>>

\* calculatePercentage, on an absent record or one without a score: 0 (SpecScore)
EmptyInputScore ==
    (pc = "charted"
       /\ (~IsSome(input)
           \/ (~IsSome(Get(input).todayScore) /\ ~IsSome(Get(input).score)))) =>
        Get(chart).percentage = 0

(***************************************************************************)
(* End to end in mock mode: getUserById -> normalizeUser ->                *)
(* calculatePercentage (useScoreChart) and statsData (Dashboard)           *)
(***************************************************************************)
\* the profile of a seeded user went through fetch, normalizer and transformer
ProfileCharted ==
    /\ pc = "charted"
    /\ USE_MOCK_DATA
    /\ input.resource = "user"
    /\ Seeded

\* the four counts of a fixture's keyData, in the order of the cards
FixtureCounts(u) ==
    LET keyData == Get(FixtureOf("user", u).keyData)
    IN  <<Get(keyData.calorieCount), Get(keyData.proteinCount),
          Get(keyData.carbohydrateCount), Get(keyData.lipidCount)>>

\* C19: in mock mode, for users 12 and 18, the score chart's percentage is
\* round(100 x the fixture's todayScore) and the nutrient stats are the
\* fixture's keyData counts; user 18 gives 30 and calorieCount 2103.
C19_MockEndToEnd ==
    ProfileCharted =>
        /\ Get(chart).percentage =
             RoundPercent(Get(FixtureOf("user", input.userId).todayScore))
        /\ Get(Get(norm).payload).keyData =
             [calorieCount      |-> FixtureCounts(input.userId)[1],
              proteinCount      |-> FixtureCounts(input.userId)[2],
              carbohydrateCount |-> FixtureCounts(input.userId)[3],
              lipidCount        |-> FixtureCounts(input.userId)[4]]
        /\ \A k \in 1..4 :
             Get(chart).stats[k].value = Some(FixtureCounts(input.userId)[k])
        /\ input.userId = 18 =>
             /\ Get(chart).percentage = 30
             /\ Get(chart).stats[1] = [label |-> "Calories", value |-> Some(2103), unit |-> "kCal"]
        /\ input.userId = 12 =>
             /\ Get(chart).percentage = 12
             /\ Get(chart).stats[1].value = Some(1930)

\* user 18's profile was fetched from the mock table and charted: 30 and 2103
C19_Witness ==
    /\ ProfileCharted
    /\ input.userId = 18
    /\ Get(norm).consulted = {"mock"}
    /\ Get(chart).percentage = 30
    /\ Get(chart).stats[1].value = Some(2103)

(***************************************************************************)
(* useAllCharts: the four chart hooks of one view and their aggregate      *)
(***************************************************************************)
ChartNames == {"activity", "sessions", "performance", "score"}

\* the gateway method behind each chart hook, by the resource it fetches
ChartResource(c) ==
    CASE c = "activity"    -> "activity"
      [] c = "sessions"    -> "average-sessions"
      [] c = "performance" -> "performance"
      [] c = "score"       -> "user"

\* a hook's error as the || chain reads it: null and "" are falsy
Truthy(error) == IsSome(error) /\ Get(error) /= ""

\* x || y
ErrorOr(x, y) == IF Truthy(x) THEN x ELSE y

\* an aggregate that looks at the first chart only
useAllCharts_ActivityOnly(s) ==
    [activity    |-> s["activity"].data,
     sessions    |-> s["sessions"].data,
     performance |-> s["performance"].data,
     score       |-> s["score"].data,
     loading     |-> s["activity"].loading,
     error       |-> s["activity"].error,
     errors      |-> [c \in ChartNames |-> s[c].error]]

\* what useAllCharts returns on a render, s being the four hooks' states
useAllCharts(s) ==
    [activity    |-> s["activity"].data,
     sessions    |-> s["sessions"].data,
     performance |-> s["performance"].data,
     score       |-> s["score"].data,
     loading     |-> (s["activity"].loading \/ s["sessions"].loading
                      \/ s["performance"].loading \/ s["score"].loading),
     error       |-> ErrorOr(s["activity"].error,
                       ErrorOr(s["sessions"].error,
                         ErrorOr(s["performance"].error, s["score"].error))),
     errors      |-> [c \in ChartNames |-> s[c].error]]

\* useApiData's continuation after the await for the chart hook of a
\* resource: nothing when the cycle was cancelled, the transformed payload
\* when the fetch resolved, the error when it rejected
ChartHookSettle(resource, s, outcome, isCancelled) ==
    IF isCancelled THEN s
    ELSE IF outcome.status = "resolved"
    THEN [data    |-> Some(TransformResource(resource, outcome.payload)),
          loading |-> FALSE,
          error   |-> None]
    ELSE useApiDataRejected(s, outcome.message).state

\* what the network may answer a chart hook's request
ChartResponses(resource) ==
    {NetworkError, HttpResponse(200, "OK", Some(FixtureOf(resource, 12)))}

\* the effect of the four hooks for a userId u, prev being the userId of the
\* render before: each hook's clean-up cancels its request in flight (stale
\* holds the user ids of the cancelled requests still in flight), then the
\* hook publishes the missing-id error or starts a new request
ChartEffect(u, prev, s, cs) ==
    /\ state' = [c \in ChartNames |->
                   IF u = 0 THEN MissingIdState("useApiData", s[c]) ELSE StartState(s[c])]
    /\ cycles' = [c \in ChartNames |->
                    [pending |-> u /= 0,
                     stale   |-> IF cs[c].pending THEN cs[c].stale \cup {prev}
                                 ELSE cs[c].stale]]

InitAllCharts ==
    /\ input = None
    /\ norm = None
    /\ chart = None
    /\ pc = "idle"
    /\ tzWest = FALSE
    /\ kind = "useAllCharts"
    /\ USE_MOCK_DATA \in BOOLEAN
    /\ view = "none"
    /\ userId = 0
    /\ state = [c \in ChartNames |-> InitialState]
    /\ cycles = [c \in ChartNames |-> [pending |-> FALSE, stale |-> {}]]
    /\ dataCycle = 0
    /\ errorCycle = 0
    /\ fetchLog = <<>>
    /\ last = NoSettle

\* first render and the four effects
MountCharts(u) ==
    /\ view = "none"
    /\ view' = "mounted"
    /\ userId' = u
    /\ ChartEffect(u, userId, state, cycles)
    /\ chart' = Some(useAllCharts(state'))
    /\ UNCHANGED <<input, norm, pc, tzWest>>
    /\ UNCHANGED <<kind, USE_MOCK_DATA, dataCycle, errorCycle, fetchLog, last>>

\* the userId prop changes: clean-ups, then the four effects again
ChangeChartsUser(u) ==
    /\ view = "mounted"
    /\ u /= userId
    /\ userId' = u
    /\ ChartEffect(u, userId, state, cycles)
    /\ chart' = Some(useAllCharts(state'))
    /\ UNCHANGED <<input, norm, pc, tzWest>>
    /\ UNCHANGED <<kind, USE_MOCK_DATA, view, dataCycle, errorCycle, fetchLog, last>>

\* the current request of one chart hook settles
SettleChart(c, response) ==
    /\ view = "mounted"
    /\ cycles[c].pending
    /\ LET outcome == FetchResource(USE_MOCK_DATA, ChartResource(c), userId, response, tzWest)
       IN  state' = [state EXCEPT ![c] = ChartHookSettle(ChartResource(c), state[c], outcome, FALSE)]
    /\ cycles' = [cycles EXCEPT ![c].pending = FALSE]
    /\ chart' = Some(useAllCharts(state'))
    /\ UNCHANGED <<input, norm, pc, tzWest>>
    /\ UNCHANGED <<kind, USE_MOCK_DATA, view, userId, dataCycle, errorCycle, fetchLog, last>>

\* a cancelled request of one chart hook settles
SettleStaleChart(c, u, response) ==
    /\ view = "mounted"
    /\ u \in cycles[c].stale
    /\ LET outcome == FetchResource(USE_MOCK_DATA, ChartResource(c), u, response, tzWest)
       IN  state' = [state EXCEPT ![c] = ChartHookSettle(ChartResource(c), state[c], outcome, TRUE)]
    /\ cycles' = [cycles EXCEPT ![c].stale = cycles[c].stale \ {u}]
    /\ chart' = Some(useAllCharts(state'))
    /\ UNCHANGED <<input, norm, pc, tzWest>>
    /\ UNCHANGED <<kind, USE_MOCK_DATA, view, userId, dataCycle, errorCycle, fetchLog, last>>

NextAllCharts ==
    \/ \E u \in UserIds : MountCharts(u)
    \/ \E u \in UserIds : ChangeChartsUser(u)
    \/ \E c \in ChartNames :
         \E response \in ChartResponses(ChartResource(c)) : SettleChart(c, response)
    \/ \E c \in ChartNames, u \in UserIds :
         \E response \in ChartResponses(ChartResource(c)) : SettleStaleChart(c, u, response)

SpecAllCharts == InitAllCharts /\ [][NextAllCharts]_vars

SettleSome ==
    \E c \in 1..Len(cycles) :
       \E response \in ResponsesFor(cycles[c].userId) : Settle(c, response)

SpecFair == Spec /\ WF_vars(SettleSome)

\* the fetch of the current, not cancelled cycle has settled
CurrentSettled == Current /= 0 /\ Settled(Current)

\* C21: whenever the fetch of the current, not cancelled cycle has settled,
\* the hook's state eventually has loading = false.
C21_LoadingEnds == CurrentSettled ~> ~state.loading

\* what holds of useApiData and useData: loading is false as soon as the
\* current cycle's fetch has settled
LoadingEndsInRequestHooks ==
    (kind \in {"useApiData", "useData"} /\ CurrentSettled) => ~state.loading

\* the state the legacy hook stays in: its current fetch resolved with a
\* payload without sessions, no state update was made, loading is still true
LegacyStillLoading ==
    /\ kind = "useActivityChart"
    /\ CurrentSettled
    /\ cycles[Current].status = "resolved"
    /\ last.cycle = Current
    /\ ~last.wrote
    /\ state.loading

(***************************************************************************)
(* What a request hook shows after identifier changes                      *)
(***************************************************************************)
\* the hook presents its data as the current result
ShowsData ==
    /\ view = "mounted"
    /\ ~state.loading
    /\ state.error = None
    /\ state.data /= None

\* C22: in a request hook (useData, useApiData), whenever loading = false,
\* error = null and data is not null, the data was written by the settle of a
\* fetch for the hook's current user identifier.
C22_NoStaleData ==
    (kind \in {"useApiData", "useData"} /\ ShowsData) =>
        /\ dataCycle /= 0
        /\ cycles[dataCycle].userId = userId

\* what holds of both hooks while the identifier is a real one
NoStaleDataForPresentId ==
    (kind \in {"useApiData", "useData"} /\ ShowsData /\ userId /= 0) =>
        /\ dataCycle = Current
        /\ cycles[dataCycle].userId = userId

\* the state useData stays in after the identifier went missing: user 12's
\* data, loading = false, error = null
StaleDataAfterMissingId ==
    /\ kind = "useData"
    /\ userId = 0
    /\ ShowsData
    /\ cycles[dataCycle].userId = 12

\* C23: in a request hook (useData, useApiData), error is not null implies
\* data is null.
C23_ErrorImpliesNoData ==
    (kind \in {"useApiData", "useData"} /\ view = "mounted" /\ state.error /= None) =>
        state.data = None

\* what holds of useData, and of useApiData while the identifier is present
ErrorImpliesNoDataForPresentId ==
    (kind \in {"useApiData", "useData"} /\ view = "mounted" /\ state.error /= None
       /\ (kind = "useData" \/ userId /= 0)) =>
        state.data = None

\* the state useApiData is in after the identifier went missing: the
\* missing-identifier error next to user 12's data
ErrorNextToData ==
    /\ kind = "useApiData"
    /\ userId = 0
    /\ state.error = Some("ID utilisateur manquant")
    /\ state.data /= None
    /\ cycles[dataCycle].userId = 12

(***************************************************************************)
(* The places that resolve a profile's score from todayScore and score     *)
(***************************************************************************)
\* legacy useScoreChart: rawData?.todayScore || rawData?.score || 0
LegacyScoreOf(rawData) == OrElse(rawData.todayScore, OrElse(rawData.score, 0))

\* ScoreChart component: userData.todayScore || userData.score || 0
ScoreChartScore(userData) == OrElse(userData.todayScore, OrElse(userData.score, 0))

\* C24: for every raw profile record, normalizeUser, calculatePercentage, the
\* legacy useScoreChart and the ScoreChart component resolve the same score.
C24_SameScoreEverywhere ==
    (pc = "normalized" /\ IsSome(input)) =>
        /\ ScoreOf(Get(input)) = Get(Get(norm)).score
        /\ LegacyScoreOf(Get(input)) = Get(Get(norm)).score
        /\ ScoreChartScore(Get(input)) = Get(Get(norm)).score

\* what holds: the four agree on records that name one score, and on records
\* whose two fields are equal
SameScoreWhenOneScore ==
    (pc = "normalized" /\ IsSome(input) /\ OneScore(Get(input))) =>
        /\ ScoreOf(Get(input)) = Get(Get(norm)).score
        /\ LegacyScoreOf(Get(input)) = Get(Get(norm)).score
        /\ ScoreChartScore(Get(input)) = Get(Get(norm)).score

\* and the transformer agrees with the normalizer on the normalizer's output,
\* whose two fields are equal
SameScoreAfterNormalizer ==
    (pc = "normalized" /\ IsSome(input)) =>
        ScoreOf(Get(UserArgument(Get(norm)))) = Get(Get(norm)).score

\* a record on which they differ: todayScore 0.3 and score 1.2
ScoresDiffer ==
    /\ pc = "normalized"
    /\ IsSome(input)
    /\ Get(input).todayScore = Some(300)
    /\ Get(input).score = Some(1200)
    /\ Get(Get(norm)).score = 300
    /\ ScoreOf(Get(input)) = 1200

(***************************************************************************)
(* The percentage the two useScoreChart hooks publish                      *)
(***************************************************************************)
\* C25: the data a useScoreChart hook publishes holds a percentage in
\* [0,100], for every score of the fetched profile (the hook of
\* hooks/chartHooks.js through normalizeUser and calculatePercentage, the
\* legacy hook through its own body).
C25_PercentageInRange ==
    (pc = "charted" /\ Get(chart).by \in {"calculatePercentage", "useScoreChart"}) =>
        Get(chart).percentage \in 0..100

\* what holds: calculatePercentage clamps, on the normalized and on the raw profile
TransformerPercentageInRange ==
    (pc = "charted" /\ Get(chart).by = "calculatePercentage") =>
        Get(chart).percentage \in 0..100

\* the legacy hook published 120 for a score of 1.2
LegacyPercentageAbove100 ==
    /\ pc = "charted"
    /\ Get(chart).by = "useScoreChart"
    /\ Get(input).todayScore = Some(1200)
    /\ Get(chart).percentage = 120

(***************************************************************************)
(* normalizeSessions: the weekday names of an entry                        *)
(***************************************************************************)
\* normalizeSessions has run on a payload with a sessions array
SessionsNormalized ==
    pc = "normalized" /\ IsSome(input) /\ IsSome(Get(input).sessions)

\* the entries normalizeSessions returned
NormSessions == Get(Get(norm)).sessions

\* C28: an entry whose day is present and outside 1..7 is emitted, at its
\* place, with the placeholder names "?" and "Inconnu", its day unchanged and
\* its length clamped to at least 1.
C28_OutOfRangeDay ==
    SessionsNormalized =>
        /\ Len(NormSessions) = Len(InputSessions)
        /\ \A i \in 1..Len(InputSessions) :
             (IsSome(InputSessions[i].day) /\ Get(InputSessions[i].day) \notin 1..7) =>
                /\ NormSessions[i].dayName = "?"
                /\ NormSessions[i].dayNameFull = "Inconnu"
                /\ NormSessions[i].day = Get(InputSessions[i].day)
                /\ NormSessions[i].sessionLength =
                     MathMax(Coalesce(InputSessions[i].sessionLength, 1), 1)
                /\ NormSessions[i].sessionLength >= 1

\* an entry with day 8 and length 0 next to one with day -1
C28_Witness ==
    /\ SessionsNormalized
    /\ Len(InputSessions) = 2
    /\ InputSessions[1] = [day |-> Some(8), sessionLength |-> Some(0)]
    /\ InputSessions[2].day = Some(0 - 1)
    /\ NormSessions[1] =
         [day |-> 8, dayName |-> "?", dayNameFull |-> "Inconnu",
          sessionLength |-> 1, sessionLengthRaw |-> 0]
    /\ NormSessions[2].dayName = "?"

\* C29: in every entry normalizeSessions returns, when the output day is in
\* 1..7 the short and full names are the table elements at index day - 1.
C29_NamesMatchDay ==
    SessionsNormalized =>
        \A i \in 1..Len(NormSessions) :
           NormSessions[i].day \in 1..7 =>
              /\ NormSessions[i].dayName = DAY_NAMES[NormSessions[i].day]
              /\ NormSessions[i].dayNameFull = DAY_NAMES_FULL[NormSessions[i].day]

\* what holds: the names match the day for entries whose day field is present
NamesMatchPresentDay ==
    SessionsNormalized =>
        \A i \in 1..Len(InputSessions) :
           (IsSome(InputSessions[i].day) /\ NormSessions[i].day \in 1..7) =>
              /\ NormSessions[i].dayName = DAY_NAMES[NormSessions[i].day]
              /\ NormSessions[i].dayNameFull = DAY_NAMES_FULL[NormSessions[i].day]

\* an entry without day came out as day 1 named "?" / "Inconnu"
MissingDayMisnamed ==
    /\ SessionsNormalized
    /\ Len(InputSessions) >= 1
    /\ InputSessions[1].day = None
    /\ NormSessions[1].day = 1
    /\ NormSessions[1].dayName = "?"
    /\ NormSessions[1].dayNameFull = "Inconnu"

(***************************************************************************)
(* formatForRadar on normalized entries: slugs, not wire ids               *)
(***************************************************************************)
\* the wire table with its ids in the opposite order
ReversedWireKind == [i \in 1..Len(WireKind) |-> WireKind[Len(WireKind) + 1 - i]]

\* the transformer's argument with another wire table and every raw id moved
\* by shift (mod 8); slugs and values are left as they are
Renumbered(rawData, table, shift) ==
    Some([kind |-> table,
          data |-> Some([i \in 1..Len(Get(Get(rawData).data)) |->
                           [Get(Get(rawData).data)[i] EXCEPT
                              !.kind = Some((Get(Get(Get(rawData).data)[i].kind) + shift) % 8)]])])

\* formatForRadar ran on the output of normalizePerformance
RadarOfNormalized ==
    /\ pc = "charted"
    /\ norm /= None
    /\ IsSome(Get(norm))

\* C27: on normalized entries the radar depends only on the entries' slugs and
\* values: the same entries with other raw ids, or with another wire table
\* (absent, reversed), give the same radar.
C27_LookupBySlug ==
    RadarOfNormalized =>
        \A table \in {None, Some(WireKind), Some(ReversedWireKind)}, shift \in 0..7 :
           formatForRadar(Renumbered(PerformanceArgument(Get(norm)), table, shift))
             = Get(chart).radar

\* a cardio entry of value 2 was charted; with the reversed table and other
\* ids it is still found under Cardio
C27_Witness ==
    /\ RadarOfNormalized
    /\ Len(Get(Get(norm)).data) >= 1
    /\ Get(Get(norm)).data[1] = [value |-> 2, kind |-> 1, kindName |-> "cardio"]
    /\ Get(chart).radar[6] = [subject |-> "Cardio", value |-> Some(2), fullMark |-> 250]
    /\ formatForRadar(Renumbered(PerformanceArgument(Get(norm)),
                                 Some(ReversedWireKind), 3))[6].value = Some(2)

(***************************************************************************)
(* SpecTransform: useApiData with a transformer that may throw. input      *)
(* holds the transformer handed to the hook; the view mounts, changes its  *)
(* identifier and unmounts as in Spec.                                     *)
(***************************************************************************)
\* no transformer (null), ActivityTransformer.format, and
\* (raw) => ({ calories: raw.sessions[0].calories }), which throws a TypeError
\* when raw is undefined or its sessions are empty
Transformers == {"none", "format", "firstCalories"}

\* transformerRef.current(rawData): whether it threw, and its value if not
ApplyTransformer(transformer, rawData) ==
    CASE transformer = "format" ->
           [threw |-> FALSE, value |-> Some(format(ActivityArgument(rawData)))]
      [] transformer = "firstCalories" ->
           IF ~IsSome(rawData) \/ Len(Get(rawData).sessions) = 0
           THEN [threw |-> TRUE, value |-> None]
           ELSE [threw |-> FALSE,
                 value |-> Some([calories |-> Get(rawData).sessions[1].calories])]
      [] OTHER -> [threw |-> FALSE, value |-> rawData]

\* a hook whose inner catch publishes the transformer's error
TransformAndPublish_ErrorOnThrow(transformer, rawData) ==
    LET r == ApplyTransformer(transformer, rawData)
    IN  IF r.threw
        THEN [state |-> [data |-> None, loading |-> FALSE,
                         error |-> Some("Erreur de transformation des données")],
              threw |-> TRUE]
        ELSE [state |-> [data |-> r.value, loading |-> FALSE, error |-> None],
              threw |-> FALSE]

\* loadData after the await, not cancelled, the fetch resolved: the inner
\* try applies the transformer, its catch falls back on rawData, then setState
TransformAndPublish(transformer, rawData) ==
    LET r == ApplyTransformer(transformer, rawData)
    IN  [state |-> [data    |-> IF r.threw THEN rawData ELSE r.value,
                    loading |-> FALSE,
                    error   |-> None],
         threw |-> r.threw]

InitTransform ==
    /\ input \in Transformers
    /\ norm = None
    /\ chart = None
    /\ pc = "idle"
    /\ tzWest = FALSE
    /\ kind = "useApiData"
    /\ USE_MOCK_DATA \in BOOLEAN
    /\ view = "none"
    /\ userId = 0
    /\ state = InitialState
    /\ cycles = <<>>
    /\ dataCycle = 0
    /\ errorCycle = 0
    /\ fetchLog = <<>>
    /\ last = NoSettle

\* a pending fetch settles; chart records what the transformer was given and
\* whether it threw, for the latest settle that reached it
SettleTransform(c, response) ==
    /\ cycles[c].status = "pending"
    /\ LET outcome == fetchData(USE_MOCK_DATA, Endpoint(cycles[c].userId), response, tzWest)
           reached == ~cycles[c].cancelled /\ outcome.status = "resolved"
           t       == TransformAndPublish(input, outcome.payload)
           r       == OnSettle(kind, state, outcome, cycles[c].cancelled)
       IN  /\ state' = IF reached THEN t.state ELSE r.state
           /\ chart' = IF reached
                       THEN Some([cycle |-> c, rawData |-> outcome.payload, threw |-> t.threw])
                       ELSE chart
           /\ cycles' = [cycles EXCEPT ![c].status = outcome.status,
                                       ![c].message = outcome.message]
           /\ dataCycle' = IF r.data THEN c ELSE dataCycle
           /\ errorCycle' = IF r.error THEN c ELSE errorCycle
           /\ last' = [cycle       |-> c,
                       stale       |-> cycles[c].cancelled,
                       wrote       |-> r.wrote,
                       normalized  |-> outcome.normalized,
                       transformed |-> reached /\ input /= "none" /\ ~t.threw,
                       consulted   |-> outcome.consulted,
                       failed      |-> (~USE_MOCK_DATA /\ Throws(response))]
    /\ UNCHANGED <<kind, USE_MOCK_DATA, view, userId, fetchLog>>
    /\ UNCHANGED <<input, norm, pc, tzWest>>

NextTransform ==
    \/ \E u \in UserIds : Mount(u)
    \/ \E u \in UserIds : ChangeUser(u)
    \/ Unmount
    \/ \E c \in 1..Len(cycles) :
         \E response \in ResponsesFor(cycles[c].userId) : SettleTransform(c, response)

SpecTransform == InitTransform /\ [][NextTransform]_vars

\* the latest settle was the current cycle's and its transformer threw
TransformerThrew ==
    /\ Current /= 0
    /\ last.cycle = Current
    /\ IsSome(chart)
    /\ Get(chart).cycle = Current
    /\ Get(chart).threw

\* C30: when the transformer throws on the fetched payload, useApiData
\* publishes that payload untransformed: data = the payload, loading = false,
\* error = null.
C30_ThrowingTransformer ==
    TransformerThrew =>
        state = [data |-> Get(chart).rawData, loading |-> FALSE, error |-> None]

\* the transformer threw on a payload with no sessions and the payload itself
\* was published
C30_Witness ==
    /\ TransformerThrew
    /\ input = "firstCalories"
    /\ Get(chart).rawData = Some([userId |-> 12, sessions |-> <<>>])
    /\ state.data = Some([userId |-> 12, sessions |-> <<>>])
    /\ ~state.loading
    /\ state.error = None

(***************************************************************************)
(* SpecNormalizers: a raw payload of each of the four resources handed to  *)
(* its normalizer.                                                         *)
(***************************************************************************)
NormalizerInputs ==
    [resource : {"user"}, rawData : UserInputs]
    \cup [resource : {"average-sessions"},
          rawData : {None}
                    \cup { Some([userId |-> u, sessions |-> None]) : u \in {None, Some(12)} }
                    \cup { Some([userId |-> Some(12), sessions |-> Some(ss)]) : ss \in ShortInputs }]
    \cup [resource : {"activity"}, rawData : ActivityInputs]
    \cup [resource : {"performance"},
          rawData : {None}
                    \cup { Some([userId |-> u, kind |-> Some(WireKind), data |-> None]) :
                             u \in {None, Some(12)} }
                    \cup { Some([userId |-> Some(12), kind |-> Some(WireKind), data |-> Some(dd)]) :
                             dd \in ShortRadarInputs }]

InitNormalizers ==
    /\ input \in NormalizerInputs
    /\ norm = None
    /\ chart = None
    /\ pc = "init"
    /\ tzWest \in BOOLEAN
    /\ HooksIdle

NormalizeUserOf ==
    /\ pc = "init"
    /\ input.resource = "user"
    /\ norm' = Some(normalizeUser(input.rawData))
    /\ pc' = "normalized"
    /\ UNCHANGED <<input, chart, tzWest>>
    /\ UNCHANGED hookVars

NormalizeSessionsOf ==
    /\ pc = "init"
    /\ input.resource = "average-sessions"
    /\ norm' = Some(normalizeSessions(input.rawData))
    /\ pc' = "normalized"
    /\ UNCHANGED <<input, chart, tzWest>>
    /\ UNCHANGED hookVars

NormalizeActivityOf ==
    /\ pc = "init"
    /\ input.resource = "activity"
    /\ norm' = Some(normalizeActivity(input.rawData, tzWest))
    /\ pc' = "normalized"
    /\ UNCHANGED <<input, chart, tzWest>>
    /\ UNCHANGED hookVars

NormalizePerformanceOf ==
    /\ pc = "init"
    /\ input.resource = "performance"
    /\ norm' = Some(normalizePerformance(input.rawData))
    /\ pc' = "normalized"
    /\ UNCHANGED <<input, chart, tzWest>>
    /\ UNCHANGED hookVars

NextNormalizers ==
    \/ NormalizeUserOf
    \/ NormalizeSessionsOf
    \/ NormalizeActivityOf
    \/ NormalizePerformanceOf

SpecNormalizers == InitNormalizers /\ [][NextNormalizers]_vars

\* the defaults the normalizers document for the fields they copy
UserInfosDefaults == [firstName |-> "", lastName |-> "", age |-> 0]

KeyDataDefaults ==
    [calorieCount |-> 0, proteinCount |-> 0, carbohydrateCount |-> 0, lipidCount |-> 0]

SessionDefaults == [day |-> 1, sessionLength |-> 1]

ActivityDefaults == [day |-> "", kilogram |-> 0, calories |-> 0]

PerformanceDefaults == [value |-> 0, kind |-> 0]

\* field f of an object that may itself be missing
FieldOf(object, f) == IF IsSome(object) THEN Get(object)[f] ELSE None

\* every field of defaults is, in out, the raw value when present and the
\* default when missing
KeepsOrDefaults(raw, out, defaults) ==
    \A f \in DOMAIN defaults : out[f] = Coalesce(FieldOf(raw, f), defaults[f])

\* the same for every entry of a sequence, entry by entry
EntriesKeepOrDefault(rawSeq, outSeq, defaults) ==
    /\ Len(outSeq) = Len(rawSeq)
    /\ \A i \in 1..Len(rawSeq) : KeepsOrDefaults(Some(rawSeq[i]), outSeq[i], defaults)

NormalizerReturned == pc = "normalized" /\ IsSome(norm)

\* the raw payload and the canonical record of a normalized state
Raw == Get(input.rawData)

Canonical == Get(Get(norm))

\* the name of the sequence field of the resource
SequenceField == IF input.resource = "performance" THEN "data" ELSE "sessions"

\* absent payload -> null; sequence field missing or not an array -> a record
\* with an empty sequence
AbsentAndEmpty ==
    /\ ~IsSome(input.rawData) => Get(norm) = None
    /\ IsSome(input.rawData) => IsSome(Get(norm))
    /\ (IsSome(input.rawData) /\ input.resource /= "user" /\ ~IsSome(Raw[SequenceField]))
         => /\ Canonical[SequenceField] = <<>>
            /\ Canonical.userId = Coalesce(Raw.userId, 0)

\* the fields the normalizers copy without deriving anything from them
PlainFieldsKept ==
    /\ (IsSome(input.rawData) /\ input.resource = "user") =>
         /\ Canonical.id = Coalesce(Raw.id, 0)
         /\ KeepsOrDefaults(Raw.userInfos, Canonical.userInfos, UserInfosDefaults)
         /\ KeepsOrDefaults(Raw.keyData, Canonical.keyData, KeyDataDefaults)
         /\ Canonical.todayScore = Coalesce(Raw.todayScore, Coalesce(Raw.score, 0))
    /\ (IsSome(input.rawData) /\ input.resource /= "user" /\ IsSome(Raw[SequenceField])) =>
         /\ Canonical.userId = Coalesce(Raw.userId, 0)
         /\ Len(Canonical[SequenceField]) = Len(Get(Raw[SequenceField]))
    /\ (IsSome(input.rawData) /\ input.resource = "activity" /\ IsSome(Raw.sessions)) =>
         EntriesKeepOrDefault(Get(Raw.sessions), Canonical.sessions, ActivityDefaults)
    /\ (IsSome(input.rawData) /\ input.resource = "performance" /\ IsSome(Raw.data)) =>
         EntriesKeepOrDefault(Get(Raw.data), Canonical.data, PerformanceDefaults)
    /\ (IsSome(input.rawData) /\ input.resource = "average-sessions" /\ IsSome(Raw.sessions)) =>
         EntriesKeepOrDefault(Get(Raw.sessions), Canonical.sessions, [day |-> 1])

\* C26 as stated: every normalizer returns null for an absent payload, a
\* record with an empty sequence when the sequence field is missing, and
\* otherwise a record in which every missing field holds its default and
\* every present field, score and sessionLength included, keeps its value.
C26_EveryPresentFieldKept ==
    NormalizerReturned =>
        /\ AbsentAndEmpty
        /\ PlainFieldsKept
        /\ (IsSome(input.rawData) /\ input.resource = "user") =>
             Canonical.score = Coalesce(Raw.score, Coalesce(Raw.todayScore, 0))
        /\ (IsSome(input.rawData) /\ input.resource = "average-sessions" /\ IsSome(Raw.sessions)) =>
             EntriesKeepOrDefault(Get(Raw.sessions), Canonical.sessions, SessionDefaults)

\* C26, amended: as above for the copied fields; the two derived fields follow
\* their own rules: score is the unified score (todayScore, else score, else
\* 0), and sessionLength is the raw length raised to at least 1, the raw
\* length (0 when missing) being kept in sessionLengthRaw.
C26_NormalizersTotal ==
    NormalizerReturned =>
        /\ AbsentAndEmpty
        /\ PlainFieldsKept
        /\ (IsSome(input.rawData) /\ input.resource = "user") =>
             Canonical.score = Canonical.todayScore
        /\ (IsSome(input.rawData) /\ input.resource = "average-sessions" /\ IsSome(Raw.sessions)) =>
             \A i \in 1..Len(Get(Raw.sessions)) :
                /\ Canonical.sessions[i].sessionLengthRaw
                     = Coalesce(Get(Raw.sessions)[i].sessionLength, 0)
                /\ Canonical.sessions[i].sessionLength
                     = MathMax(Coalesce(Get(Raw.sessions)[i].sessionLength, 1), 1)

\* a session with a missing day and a present length of 0: day defaulted to 1,
\* length raised to 1, raw length kept aside
C26_Witness ==
    /\ NormalizerReturned
    /\ input.resource = "average-sessions"
    /\ input.rawData = Some([userId |-> Some(12),
                             sessions |-> Some(<<[day |-> None, sessionLength |-> Some(0)]>>)])
    /\ Canonical.sessions[1].day = 1
    /\ Canonical.sessions[1].sessionLength = 1
    /\ Canonical.sessions[1].sessionLengthRaw = 0

====
